---- MODULE Spec2Model ----
(***************************************************************************)
(* Model of the gotway service registry (internal/application): the three  *)
(* maps instances / services / routes, Register, Heartbeat, Deregister,    *)
(* the cleanup scan, route collision detection and the read queries.       *)
(*                                                                         *)
(* Strings are Go strings; a path or a key is a TLA+ string and the string *)
(* functions of the code (Split, Trim, the normalisation regexp) are       *)
(* computed character by character.  Time is an integer clock `now`; a     *)
(* time.Duration is a number of clock units.                               *)
(***************************************************************************)
EXTENDS Integers, Sequences, FiniteSets, TLC

VARIABLES
    config,      \* RegistryConfig: HeartbeatTTL, StrictPatternMatching
    now,         \* the wall clock read by time.Now()
    instances,   \* Registry.instances : id -> ServiceInstance
    services,    \* Registry.services  : service name -> sequence of ids
    routes,      \* Registry.routes    : "METHOD:/full/path" -> RouteEntry
    nextID,      \* number of instance ids handed out so far (uuid.New)
    calls,       \* the Register calls that wait for the write lock
    registered,  \* history: the routes each service with an instance has registered
    removed,     \* history: the ids whose instance was deregistered or evicted
    reader,      \* the ListServices request that is writing its response
    broker,      \* jwt.Service: publicKey, privateKey, issuer, internalTTL, allowedIssuers
    tokens,      \* the tokens that exist: minted by the broker or made elsewhere
    verdict,     \* the last call of the token broker and what it returned
    proxy,       \* the request inside ProxyHandler.Handle, or the last answer
    counter,     \* RoundRobinBalancer.counter
    limiter,     \* the rate limiter, the calls inside Allow and the last answer of the gate
    server,      \* Server: what NewServer installed, and the last answer of a registry endpoint
    balancer,    \* the goroutines inside RoundRobinBalancer.Select and what they returned
    matcher,     \* the last call of MatchRoute and what it returned
    director     \* the last request the Director of the reverse proxy has rewritten

vars == <<config, now, instances, services, routes, nextID, calls, registered, removed,
          reader, broker, tokens, verdict, proxy, counter, limiter,
          server, balancer, matcher, director>>

\* the state outside the registry and the ListServices request
afterReader == <<broker, tokens, verdict, proxy, counter, limiter,
                server, balancer, matcher, director>>

\* the state outside the registry
beyond == <<reader, broker, tokens, verdict, proxy, counter, limiter,
           server, balancer, matcher, director>>

(***************************************************************************)
(* Bounds of the model.                                                    *)
(***************************************************************************)
MaxTime == 3         \* the clock runs from 0 to MaxTime
MaxTTL == 1          \* HeartbeatTTL is chosen in 1..MaxTTL
MaxInstances == 2    \* instance ids handed out while the clock runs
MaxStill == 3        \* instance ids handed out while the clock stands still
MaxCallers == 2      \* goroutines that may be inside Register at once

IDs == 0..MaxStill              \* 0 is an id that is never handed out

StatusHealthy == "healthy"
StatusUnhealthy == "unhealthy"
ExactCollision == "exact"
PatternCollision == "pattern"

(***************************************************************************)
(* Maps with a dynamic key set.                                            *)
(***************************************************************************)
EmptyMap == [k \in {} |-> {}]

Put(m, k, v) == [x \in (DOMAIN m) \cup {k} |-> IF x = k THEN v ELSE m[x]]

Delete(m, ks) == [x \in (DOMAIN m) \ ks |-> m[x]]

Lookup(m, k) == IF k \in DOMAIN m THEN m[k] ELSE << >>

(***************************************************************************)
(* Go string functions.                                                    *)
(***************************************************************************)
Char(s, i) == SubSeq(s, i, i)

\* strings.Index(s[from:], c) as an absolute position, 0 when absent
RECURSIVE IndexFrom(_, _, _)
IndexFrom(s, c, from) ==
    IF from > Len(s) THEN 0
    ELSE IF Char(s, from) = c THEN from
    ELSE IndexFrom(s, c, from + 1)

\* strings.Split(s, sep) for a one-character separator
RECURSIVE Split(_, _)
Split(s, sep) ==
    LET i == IndexFrom(s, sep, 1)
    IN  IF i = 0 THEN << s >>
        ELSE << SubSeq(s, 1, i - 1) >> \o Split(SubSeq(s, i + 1, Len(s)), sep)

\* strings.Trim(s, c) for a one-character cutset
RECURSIVE TrimLeft(_, _)
TrimLeft(s, c) ==
    IF Len(s) > 0 /\ Char(s, 1) = c THEN TrimLeft(SubSeq(s, 2, Len(s)), c) ELSE s

RECURSIVE TrimRight(_, _)
TrimRight(s, c) ==
    IF Len(s) > 0 /\ Char(s, Len(s)) = c THEN TrimRight(SubSeq(s, 1, Len(s) - 1), c) ELSE s

Trim(s, c) == TrimRight(TrimLeft(s, c), c)

(***************************************************************************)
(* domain: Route.FullPath, RegisterRequest.Validate.                       *)
(***************************************************************************)
FullPath(route, basePath) ==
    IF basePath = "" THEN route.Path
    ELSE IF route.Path = "" THEN basePath
    ELSE basePath \o route.Path

\* the key under which Register installs a route
Key(route, basePath) == route.Method \o ":" \o FullPath(route, basePath)

\* the error of RegisterRequest.Validate, "" for nil
Validate(req) ==
    IF req.ServiceName = "" THEN "service_name is required"
    ELSE IF req.Host = "" THEN "host is required"
    ELSE IF req.Port <= 0 \/ req.Port > 65535 THEN "port must be between 1 and 65535"
    ELSE IF req.BasePath = "" THEN "base_path is required"
    ELSE IF Len(req.Routes) = 0 THEN "at least one route is required"
    ELSE ""

\* the request as Validate leaves it: an empty health_url becomes "/health"
WithHealthURL(req) ==
    IF req.HealthURL = "" THEN [req EXCEPT !.HealthURL = "/health"] ELSE req

(***************************************************************************)
(* Collision detection.                                                    *)
(***************************************************************************)
\* end of the run of characters other than "/" that starts at i
RECURSIVE EndOfSegment(_, _)
EndOfSegment(s, i) ==
    IF i > Len(s) \/ Char(s, i) = "/" THEN i ELSE EndOfSegment(s, i + 1)

\* paramPattern.ReplaceAllString(path, "*") for paramPattern = :[^/]+|\{[^}]+\}
RECURSIVE normalizeFrom(_, _)
normalizeFrom(s, i) ==
    IF i > Len(s) THEN ""
    ELSE IF Char(s, i) = ":" /\ i + 1 <= Len(s) /\ Char(s, i + 1) # "/"
         THEN "*" \o normalizeFrom(s, EndOfSegment(s, i + 1))
    ELSE IF Char(s, i) = "{" /\ IndexFrom(s, "}", i + 1) >= i + 2
         THEN "*" \o normalizeFrom(s, IndexFrom(s, "}", i + 1) + 1)
    ELSE Char(s, i) \o normalizeFrom(s, i + 1)

normalizePath(path) == normalizeFrom(path, 1)

\* pathsOverlap that takes a * for a literal segment
pathsOverlapLiteral(path1, path2) == path1 = path2

pathsOverlap(path1, path2) ==
    IF path1 = path2 THEN TRUE
    ELSE LET segments1 == Split(Trim(path1, "/"), "/")
             segments2 == Split(Trim(path2, "/"), "/")
         IN  /\ Len(segments1) = Len(segments2)
             /\ \A i \in 1..Len(segments1) :
                    \/ segments1[i] = "*"
                    \/ segments2[i] = "*"
                    \/ segments1[i] = segments2[i]

\* the collision found by the exact check, as a sequence of zero or one record
checkExactCollision(rts, serviceName, method, path) ==
    LET key == method \o ":" \o path
    IN  IF key \in DOMAIN rts /\ rts[key].ServiceName # serviceName
        THEN << [Method        |-> method,
                 Path          |-> path,
                 CollisionType |-> ExactCollision,
                 RegisteredBy  |-> rts[key].ServiceName,
                 RegisteredAt  |-> rts[key].RegisteredAt] >>
        ELSE << >>

\* strings.SplitN(key, ":", 2)
SplitKey(key) ==
    LET i == IndexFrom(key, ":", 1)
    IN  IF i = 0 THEN << key >>
        ELSE << SubSeq(key, 1, i - 1), SubSeq(key, i + 1, Len(key)) >>

\* the keys of the entries that checkPatternCollision reports
patternColliding(rts, serviceName, method, path) ==
    LET normalizedNew == normalizePath(path)
    IN  { key \in DOMAIN rts :
            /\ rts[key].ServiceName # serviceName
            /\ LET parts == SplitKey(key)
               IN  /\ Len(parts) = 2
                   /\ parts[1] = method
                   /\ pathsOverlap(normalizedNew, normalizePath(parts[2])) }

\* every enumeration of a finite set: the orders a map may be ranged over
RECURSIVE Orderings(_)
Orderings(S) ==
    IF S = {} THEN { << >> }
    ELSE UNION { { << x >> \o rest : rest \in Orderings(S \ {x}) } : x \in S }

\* the results checkPatternCollision may return: one collision per
\* overlapping entry of another service, in the order the map is ranged over
checkPatternCollision(rts, serviceName, method, path) ==
    { [i \in 1..Len(order) |->
          [Method        |-> method,
           Path          |-> path,
           CollisionType |-> PatternCollision,
           RegisteredBy  |-> rts[order[i]].ServiceName,
           RegisteredAt  |-> rts[order[i]].RegisteredAt]] :
      order \in Orderings(patternColliding(rts, serviceName, method, path)) }

\* the results ValidateRoutes may return for the routes from position i on
RECURSIVE ValidateRoutesFrom(_, _, _, _, _, _)
ValidateRoutesFrom(rts, strict, serviceName, basePath, rs, i) ==
    IF i > Len(rs) THEN { << >> }
    ELSE LET fullPath == FullPath(rs[i], basePath)
             exact == checkExactCollision(rts, serviceName, rs[i].Method, fullPath)
             found == IF exact # << >> THEN { exact }
                      ELSE IF strict
                           THEN checkPatternCollision(rts, serviceName, rs[i].Method, fullPath)
                           ELSE { << >> }
         IN  { h \o t : h \in found,
                        t \in ValidateRoutesFrom(rts, strict, serviceName, basePath, rs, i + 1) }

ValidateRoutes(rts, strict, serviceName, basePath, rs) ==
    ValidateRoutesFrom(rts, strict, serviceName, basePath, rs, 1)

(***************************************************************************)
(* The requests the model sends.                                           *)
(***************************************************************************)
Route(method, path) == [Method |-> method, Path |-> path]

RouteLists ==
    { << Route("GET", "/users/:id") >>,
      << Route("GET", "/users/me"), Route("POST", "/users/me") >>,
      << Route("GET", "/users/me"), Route("GET", "/users/me") >> }

ServiceNames == { "a", "b" }

ValidRequests ==
    [ ServiceName : ServiceNames,
      Host        : { "localhost" },
      Port        : { 8081 },
      HealthURL   : { "" },
      BasePath    : { "/api" },
      Routes      : RouteLists ]

GoodRequest ==
    [ ServiceName |-> "a", Host |-> "localhost", Port |-> 8081, HealthURL |-> "",
      BasePath |-> "/api", Routes |-> << Route("GET", "/items") >> ]

InvalidRequests ==
    { [GoodRequest EXCEPT !.ServiceName = ""],
      [GoodRequest EXCEPT !.Host = ""],
      [GoodRequest EXCEPT !.BasePath = ""],
      [GoodRequest EXCEPT !.Routes = << >>] }
    \cup { [GoodRequest EXCEPT !.Port = p] : p \in { 0, -1, 65536 } }

RegisterRequests == ValidRequests \cup InvalidRequests

(***************************************************************************)
(* Errors: "" is nil.                                                      *)
(***************************************************************************)
ErrInstanceNotFound == "instance not found"
ErrCollision == "route collisions detected"

\* no ListServices request is in progress
NoReader == [active |-> FALSE, refs |-> << >>, objs |-> << >>, out |-> << >>, views |-> {}]

(***************************************************************************)
(* The token broker (jwt.Service).  A key is named by its key pair: a      *)
(* token signed with the private key k verifies under the public key k     *)
(* only; "" is no key.  A token is its header and claims: a string claim   *)
(* that is absent or not a string reads as "", a number claim that is      *)
(* absent as 0, as getStringClaim and the type assertions of the code read *)
(* them.  Times are Unix seconds.                                          *)
(***************************************************************************)
ErrTokenExpired == "token has expired"
ErrTokenNotYetValid == "token is not yet valid"
ErrTokenInvalidSubject == "token has invalid subject"
ErrTokenInvalidIssuer == "token has invalid issuer"
ErrTokenInvalidAudience == "token has invalid audience"
ErrTokenAudienceMismatch == "token audience mismatch"
ErrTokenIssuerNotAllowed == "token issuer not allowed"
ErrTokenInvalidSignature == "token has invalid signature"
ErrTokenMalformed == "token is malformed"
ErrNoPublicKey == "public key not configured"
ErrNoPrivateKey == "private key not configured"

\* the Unix time of the clock value t
Epoch == 1000
Unix(t) == Epoch + t

\* config.Config: the defaults of the environment
DefaultConfig ==
    [JWTPublicKey |-> "", JWTPrivateKey |-> "", JWTIssuer |-> "api-api",
     JWTInternalTTL |-> 2, JWTAllowedIssuers |-> << "auth-service" >>]

NewService(cfg) ==
    [publicKey      |-> IF cfg.JWTPublicKey # "" THEN cfg.JWTPublicKey ELSE cfg.JWTPrivateKey,
     privateKey     |-> cfg.JWTPrivateKey,
     issuer         |-> cfg.JWTIssuer,
     internalTTL    |-> cfg.JWTInternalTTL,
     allowedIssuers |-> cfg.JWTAllowedIssuers]

\* the claims returned with an error
NoClaims ==
    [Subject |-> "", Email |-> "", Scopes |-> << >>, Issuer |-> "", Audience |-> "",
     Trace |-> << >>, OriginalIssuer |-> "", IssuedAt |-> 0, ExpiresAt |-> 0, NotBefore |-> 0]

\* no token: the empty token string
NoToken ==
    [alg |-> "", key |-> "", sub |-> "", email |-> "", scopes |-> << >>, iss |-> "",
     aud |-> "", original_iss |-> "", trace |-> << >>, iat |-> 0, exp |-> 0, nbf |-> 0]

\* the signing methods of type *jwt.SigningMethodRSA, the ones the key
\* function of the service lets pass
SigningMethodRSA == { "RS256", "RS384", "RS512" }

\* jwt.Parse with the key function of the service: the error it returns
\* ("" is nil) for a token at clock value at
Parse(service, token, at) ==
    IF token = NoToken THEN ErrTokenMalformed
    ELSE IF token.alg \notin SigningMethodRSA THEN ErrTokenMalformed
    ELSE IF token.key # service.publicKey THEN ErrTokenInvalidSignature
    ELSE IF token.exp # 0 /\ Unix(at) > token.exp THEN ErrTokenExpired
    ELSE IF token.nbf # 0 /\ Unix(at) < token.nbf THEN ErrTokenNotYetValid
    ELSE ""

\* ExternalClaims.Valid
ExternalValid(claims, at) ==
    IF claims.ExpiresAt # 0 /\ Unix(at) > claims.ExpiresAt THEN ErrTokenExpired
    ELSE IF claims.NotBefore # 0 /\ Unix(at) < claims.NotBefore THEN ErrTokenNotYetValid
    ELSE IF claims.Subject = "" THEN ErrTokenInvalidSubject
    ELSE ""

ValidateExternalToken(service, token, at) ==
    LET claims == [NoClaims EXCEPT !.Subject = token.sub, !.Email = token.email,
                                   !.Scopes = token.scopes, !.Issuer = token.iss,
                                   !.Audience = token.aud, !.IssuedAt = token.iat,
                                   !.ExpiresAt = token.exp, !.NotBefore = token.nbf]
        err == IF service.publicKey = "" THEN ErrNoPublicKey
               ELSE IF Parse(service, token, at) # "" THEN Parse(service, token, at)
               ELSE ExternalValid(claims, at)
    IN  [err |-> err, claims |-> IF err = "" THEN claims ELSE NoClaims]

\* GenerateInternalToken that writes its own issuer as the original issuer
GenerateInternalTokenOwnIssuer(service, extClaims, audience, at) ==
    IF service.privateKey = ""
    THEN [err |-> ErrNoPrivateKey, token |-> NoToken]
    ELSE [err |-> "",
          token |-> [alg |-> "RS256", key |-> service.privateKey,
                     sub |-> extClaims.Subject, email |-> extClaims.Email,
                     scopes |-> extClaims.Scopes, iss |-> service.issuer,
                     aud |-> audience, original_iss |-> service.issuer,
                     trace |-> << service.issuer >>, iat |-> Unix(at),
                     exp |-> Unix(at + service.internalTTL), nbf |-> 0]]

\* GenerateServiceToken that starts the trace anew
GenerateServiceTokenFreshTrace(service, intClaims, audience, at) ==
    IF service.privateKey = ""
    THEN [err |-> ErrNoPrivateKey, token |-> NoToken]
    ELSE [err |-> "",
          token |-> [alg |-> "RS256", key |-> service.privateKey,
                     sub |-> intClaims.Subject, email |-> intClaims.Email,
                     scopes |-> intClaims.Scopes, iss |-> service.issuer,
                     aud |-> audience, original_iss |-> intClaims.OriginalIssuer,
                     trace |-> << service.issuer >>, iat |-> Unix(at),
                     exp |-> Unix(at + service.internalTTL), nbf |-> 0]]

\* Service.GenerateServiceToken: the trace of the claims with the issuer of
\* the service appended
GenerateServiceToken(service, intClaims, audience, at) ==
    IF service.privateKey = ""
    THEN [err |-> ErrNoPrivateKey, token |-> NoToken]
    ELSE [err |-> "",
          token |-> [alg |-> "RS256", key |-> service.privateKey,
                     sub |-> intClaims.Subject, email |-> intClaims.Email,
                     scopes |-> intClaims.Scopes, iss |-> service.issuer,
                     aud |-> audience, original_iss |-> intClaims.OriginalIssuer,
                     trace |-> Append(intClaims.Trace, service.issuer), iat |-> Unix(at),
                     exp |-> Unix(at + service.internalTTL), nbf |-> 0]]

GenerateInternalToken(service, extClaims, audience, at) ==
    IF service.privateKey = ""
    THEN [err |-> ErrNoPrivateKey, token |-> NoToken]
    ELSE [err |-> "",
          token |-> [alg |-> "RS256", key |-> service.privateKey,
                     sub |-> extClaims.Subject, email |-> extClaims.Email,
                     scopes |-> extClaims.Scopes, iss |-> service.issuer,
                     aud |-> audience, original_iss |-> extClaims.Issuer,
                     trace |-> << service.issuer >>, iat |-> Unix(at),
                     exp |-> Unix(at + service.internalTTL), nbf |-> 0]]

\* InternalClaims.Valid
InternalValid(claims, at) ==
    IF claims.ExpiresAt # 0 /\ Unix(at) > claims.ExpiresAt THEN ErrTokenExpired
    ELSE IF claims.Subject = "" THEN ErrTokenInvalidSubject
    ELSE IF claims.Issuer = "" THEN ErrTokenInvalidIssuer
    ELSE IF claims.Audience = "" THEN ErrTokenInvalidAudience
    ELSE ""

ValidateAudience(claims, expectedAudience) ==
    IF claims.Audience # expectedAudience THEN ErrTokenAudienceMismatch ELSE ""

\* ValidateIssuer that lets every issuer pass
ValidateIssuerAny(claims, allowedIssuers) == ""

ValidateIssuer(claims, allowedIssuers) ==
    IF \E i \in 1..Len(allowedIssuers) : claims.Issuer = allowedIssuers[i]
    THEN "" ELSE ErrTokenIssuerNotAllowed

\* the error jwt.Parse leaves after the mapping of ValidateInternalToken: a
\* token that is not yet valid counts as malformed there
InternalParse(service, token, at) ==
    IF Parse(service, token, at) = ErrTokenNotYetValid THEN ErrTokenMalformed
    ELSE Parse(service, token, at)

ValidateInternalToken(service, token, expectedAudience, at) ==
    LET claims == [NoClaims EXCEPT !.Subject = token.sub, !.Email = token.email,
                                   !.Scopes = token.scopes, !.Issuer = token.iss,
                                   !.Audience = token.aud,
                                   !.OriginalIssuer = token.original_iss,
                                   !.Trace = token.trace, !.IssuedAt = token.iat,
                                   !.ExpiresAt = token.exp]
        err == IF service.publicKey = "" THEN ErrNoPublicKey
               ELSE IF InternalParse(service, token, at) # ""
                    THEN InternalParse(service, token, at)
               ELSE IF InternalValid(claims, at) # "" THEN InternalValid(claims, at)
               ELSE IF ValidateAudience(claims, expectedAudience) # ""
                    THEN ValidateAudience(claims, expectedAudience)
               ELSE ValidateIssuer(claims, service.allowedIssuers)
    IN  [err |-> err, claims |-> IF err = "" THEN claims ELSE NoClaims]

\* Result of a call that has not been made
NoResult == [Allowed |-> FALSE, Limit |-> 0, Remaining |-> 0, ResetAt |-> 0]

\* no request has been through the rate-limit gate
NoAnswer ==
    [gate |-> FALSE, key |-> "", at |-> 0, failed |-> FALSE, result |-> NoResult,
     headers |-> EmptyMap, status |-> 0, error |-> "", handled |-> FALSE]

\* NewInMemoryLimiter and NewLimiter: a limiter without timestamps; inside
\* are the calls between their read and their write of the map, admitted
\* are the calls answered with Allowed, oldest first
NewInMemoryLimiter ==
    [redis |-> FALSE, requests |-> EmptyMap, inside |-> {}, admitted |-> << >>,
     fatal |-> FALSE, last |-> NoAnswer]

NewLimiter == [NewInMemoryLimiter EXCEPT !.redis = TRUE]

\* no route entry
NoEntry ==
    [ServiceName |-> "", BasePath |-> "", Route |-> [Method |-> "", Path |-> ""],
     RegisteredAt |-> 0]

\* no request is inside Handle and none was answered
Idle ==
    [stage |-> "idle", auth |-> [text |-> "", token |-> NoToken],
     entry |-> NoEntry, status |-> 0, upstream |-> 0, issuer |-> "",
     context |-> EmptyMap]

\* ValidateInternalToken has not been called
NoVerdict == [called |-> FALSE, entry |-> << >>, expected |-> "", at |-> 0,
              err |-> "", claims |-> NoClaims]

(***************************************************************************)
(* The state of the parts outside the registry before they are used.       *)
(***************************************************************************)
\* no request has been answered by a registry endpoint
NoReply == [endpoint |-> "", status |-> 0, error |-> "", counted |-> FALSE,
            identity |-> "", name |-> "", reached |-> FALSE]

\* a Server without rate limiter and cache client, before Run: stopCh says
\* that the stop channel is closed, loop where the cleanup goroutine is, pc
\* where Shutdown is
NoServer == [rateLimited |-> FALSE, serviceToken |-> "", last |-> NoReply,
             stopCh |-> FALSE, loop |-> "", redisClient |-> "", httpServer |-> "", pc |-> ""]

\* no goroutine has called Select
NoBalancer == [instances |-> << >>, inside |-> {}, returned |-> << >>, overlapped |-> FALSE]

\* MatchRoute has not been called
NoMatcher == [called |-> FALSE, method |-> "", path |-> "",
              result |-> [found |-> FALSE, key |-> "", params |-> [k \in {} |-> {}]]]

\* the Director has not been called
NoDirector == [called |-> FALSE, tls |-> FALSE, incoming |-> [k \in {} |-> {}],
               upstream |-> [k \in {} |-> {}]]

(***************************************************************************)
(* Init: NewRegistry(cfg).                                                 *)
(***************************************************************************)
Init ==
    /\ config \in [ HeartbeatTTL : 1..MaxTTL, StrictPatternMatching : BOOLEAN ]
    /\ now = 0
    /\ instances = EmptyMap
    /\ services = EmptyMap
    /\ routes = EmptyMap
    /\ nextID = 0
    /\ calls = {}
    /\ registered = {}
    /\ removed = {}
    /\ reader = NoReader
    /\ broker = NewService(DefaultConfig)
    /\ tokens = {}
    /\ verdict = NoVerdict
    /\ proxy = Idle
    /\ counter = 0
    /\ limiter = NewInMemoryLimiter
    /\ server = NoServer
    /\ balancer = NoBalancer
    /\ matcher = NoMatcher
    /\ director = NoDirector

\* time passes
Tick ==
    /\ now < MaxTime
    /\ now' = now + 1
    /\ UNCHANGED <<config, instances, services, routes, nextID, calls, registered, removed>>

(***************************************************************************)
(* Register.  The call validates the request and the routes under the read *)
(* lock, releases it, builds the instance (id and timestamp) and only then *)
(* takes the write lock: other operations may run in between.              *)
(***************************************************************************)
\* what the checks of Register may find: the error it returns with ("" when
\* it goes on) and, for a CollisionError, the collisions it carries
RegisterChecks(req) ==
    IF Validate(req) # ""
    THEN { [err |-> Validate(req), collisions |-> << >>] }
    ELSE { [err |-> IF Len(collisions) > 0 THEN ErrCollision ELSE "",
            collisions |-> collisions] :
           collisions \in ValidateRoutes(routes, config.StrictPatternMatching,
                                         req.ServiceName, req.BasePath, req.Routes) }

\* an id made from the number of live instances: ids come back after a removal
NewIDByCount == Cardinality(DOMAIN instances) + Cardinality(calls) + 1

\* uuid.New(): an id that was never handed out
NewID == nextID + 1

\* Register that goes on to the write lock although collisions were found
RegisterValidateDespiteCollisions(req) ==
    /\ \E check \in RegisterChecks(req) :
         IF check.err # "" /\ check.err # ErrCollision
         THEN UNCHANGED <<nextID, calls>>
         ELSE /\ nextID' = nextID + 1
              /\ calls' = calls \cup { [req        |-> WithHealthURL(req),
                                        instanceID |-> NewID,
                                        now        |-> now] }
    /\ UNCHANGED <<config, now, instances, services, routes, registered, removed>>

\* Register up to the write lock: returns an error, or leaves the call
\* waiting for the lock with its instance built
RegisterValidate(req) ==
    /\ \E check \in RegisterChecks(req) :
         IF check.err # ""
         THEN UNCHANGED <<nextID, calls>>
         ELSE /\ nextID' = nextID + 1
              /\ calls' = calls \cup { [req        |-> WithHealthURL(req),
                                        instanceID |-> NewID,
                                        now        |-> now] }
    /\ UNCHANGED <<config, now, instances, services, routes, registered, removed>>

\* installRoutes with the key built from the path alone
RECURSIVE installRoutesByPath(_, _, _, _, _)
installRoutesByPath(rts, req, rs, at, i) ==
    IF i > Len(rs) THEN rts
    ELSE installRoutesByPath(Put(rts, FullPath(rs[i], req.BasePath),
                                 [ServiceName  |-> req.ServiceName,
                                  BasePath     |-> req.BasePath,
                                  Route        |-> rs[i],
                                  RegisteredAt |-> at]),
                             req, rs, at, i + 1)

\* the routes map after the loop of Register has installed rs[i..]
RECURSIVE installRoutes(_, _, _, _, _)
installRoutes(rts, req, rs, at, i) ==
    IF i > Len(rs) THEN rts
    ELSE installRoutes(Put(rts, rs[i].Method \o ":" \o FullPath(rs[i], req.BasePath),
                           [ServiceName  |-> req.ServiceName,
                            BasePath     |-> req.BasePath,
                            Route        |-> rs[i],
                            RegisteredAt |-> at]),
                       req, rs, at, i + 1)

\* RegisterResponse.RegisteredRoutes
registeredRoutes(req) ==
    [i \in 1..Len(req.Routes) |->
        req.Routes[i].Method \o ":" \o FullPath(req.Routes[i], req.BasePath)]

\* an instance whose weight is the number of the registration
NewInstanceNumbered(req, instanceID, at) ==
    [ID            |-> instanceID,
     ServiceName   |-> req.ServiceName,
     Host          |-> req.Host,
     Port          |-> req.Port,
     HealthURL     |-> req.HealthURL,
     Status        |-> StatusHealthy,
     Weight        |-> instanceID,
     RegisteredAt  |-> at,
     LastHeartbeat |-> at]

NewInstance(req, instanceID, at) ==
    [ID            |-> instanceID,
     ServiceName   |-> req.ServiceName,
     Host          |-> req.Host,
     Port          |-> req.Port,
     HealthURL     |-> req.HealthURL,
     Status        |-> StatusHealthy,
     Weight        |-> 1,
     RegisteredAt  |-> at,
     LastHeartbeat |-> at]

\* the three maps as one value
Reg == [instances |-> instances, services |-> services, routes |-> routes]

\* the three maps after the critical section of Register has run on reg
Committed(reg, call) ==
    [instances |-> Put(reg.instances, call.instanceID,
                       NewInstance(call.req, call.instanceID, call.now)),
     services  |-> Put(reg.services, call.req.ServiceName,
                       Lookup(reg.services, call.req.ServiceName) \o << call.instanceID >>),
     routes    |-> installRoutes(reg.routes, call.req, call.req.Routes, call.now, 1)]

\* the checks of Register find nothing against req when the maps are reg
Passes(reg, req) ==
    /\ Validate(req) = ""
    /\ ValidateRoutes(reg.routes, config.StrictPatternMatching,
                      req.ServiceName, req.BasePath, req.Routes) = { << >> }

\* the call Register builds for req when it is handed the id instanceID
CallOf(req, instanceID) ==
    [req |-> WithHealthURL(req), instanceID |-> instanceID, now |-> now]

\* Register under the write lock
RegisterCommit(call) ==
    /\ call \in calls
    /\ instances' = Put(instances, call.instanceID,
                        NewInstance(call.req, call.instanceID, call.now))
    /\ services' = Put(services, call.req.ServiceName,
                       Lookup(services, call.req.ServiceName) \o << call.instanceID >>)
    /\ routes' = installRoutes(routes, call.req, call.req.Routes, call.now, 1)
    /\ calls' = calls \ {call}
    /\ registered' = registered \cup
                       { [ServiceName |-> call.req.ServiceName,
                          BasePath    |-> call.req.BasePath,
                          Route       |-> call.req.Routes[i]] : i \in 1..Len(call.req.Routes) }
    /\ UNCHANGED <<config, now, nextID, removed>>

(***************************************************************************)
(* Heartbeat.                                                              *)
(***************************************************************************)
HeartbeatError(instanceID) ==
    IF instanceID \notin DOMAIN instances THEN ErrInstanceNotFound ELSE ""

\* Heartbeat that also sets the status back to healthy
HeartbeatRevives(instanceID) ==
    /\ IF HeartbeatError(instanceID) # ""
       THEN UNCHANGED instances
       ELSE instances' = [instances EXCEPT ![instanceID].LastHeartbeat = now,
                                           ![instanceID].Status = StatusHealthy]
    /\ UNCHANGED <<config, now, services, routes, nextID, calls, registered, removed>>

Heartbeat(instanceID) ==
    /\ IF HeartbeatError(instanceID) # ""
       THEN UNCHANGED instances
       ELSE instances' = [instances EXCEPT ![instanceID].LastHeartbeat = now]
    /\ UNCHANGED <<config, now, services, routes, nextID, calls, registered, removed>>

(***************************************************************************)
(* Deregister and the cleanup scan.                                        *)
(***************************************************************************)
\* removal by moving the last element into the freed position
RemoveSwapLast(ids, id) ==
    IF \E i \in 1..Len(ids) : ids[i] = id
    THEN LET i == CHOOSE k \in 1..Len(ids) :
                     ids[k] = id /\ \A j \in 1..(k - 1) : ids[j] # id
         IN  SubSeq([ids EXCEPT ![i] = ids[Len(ids)]], 1, Len(ids) - 1)
    ELSE ids

\* append(ids[:i], ids[i+1:]...) for the first i with ids[i] = id
RemoveFirst(ids, id) ==
    IF \E i \in 1..Len(ids) : ids[i] = id
    THEN LET i == CHOOSE k \in 1..Len(ids) :
                     ids[k] = id /\ \A j \in 1..(k - 1) : ids[j] # id
         IN  SubSeq(ids, 1, i - 1) \o SubSeq(ids, i + 1, Len(ids))
    ELSE ids

\* removeInstanceLocked without its final delete(r.instances, instanceID)
removeInstanceLockedLeavesInstance(reg, instanceID) ==
    IF instanceID \notin DOMAIN reg.instances THEN reg
    ELSE LET s == reg.instances[instanceID].ServiceName
             ids == RemoveFirst(Lookup(reg.services, s), instanceID)
         IN  [instances |-> reg.instances,
              services  |-> IF Len(ids) = 0
                            THEN Delete(reg.services, {s})
                            ELSE Put(reg.services, s, ids),
              routes    |-> IF Len(ids) = 0
                            THEN Delete(reg.routes,
                                        { key \in DOMAIN reg.routes :
                                            reg.routes[key].ServiceName = s })
                            ELSE reg.routes]

\* the three maps after removing an instance and, with the last instance
\* of its service, the service's routes and bucket
removeInstanceLocked(reg, instanceID) ==
    IF instanceID \notin DOMAIN reg.instances THEN reg
    ELSE LET s == reg.instances[instanceID].ServiceName
             ids == RemoveFirst(Lookup(reg.services, s), instanceID)
         IN  [instances |-> Delete(reg.instances, {instanceID}),
              services  |-> IF Len(ids) = 0
                            THEN Delete(reg.services, {s})
                            ELSE Put(reg.services, s, ids),
              routes    |-> IF Len(ids) = 0
                            THEN Delete(reg.routes,
                                        { key \in DOMAIN reg.routes :
                                            reg.routes[key].ServiceName = s })
                            ELSE reg.routes]

DeregisterError(instanceID) ==
    IF instanceID \notin DOMAIN instances THEN ErrInstanceNotFound ELSE ""

\* Deregister without the loop that deletes the routes of an emptied service
DeregisterKeepsRoutes(instanceID) ==
    /\ IF DeregisterError(instanceID) # ""
       THEN UNCHANGED <<instances, services, routes>>
       ELSE LET serviceName == instances[instanceID].ServiceName
                instanceIDs == RemoveFirst(Lookup(services, serviceName), instanceID)
            IN  /\ services' = IF Len(instanceIDs) = 0
                               THEN Delete(services, {serviceName})
                               ELSE Put(services, serviceName, instanceIDs)
                /\ routes' = routes
                /\ instances' = Delete(instances, {instanceID})
    /\ registered' = { x \in registered : x.ServiceName \in DOMAIN services' }
    /\ removed' = removed \cup ((DOMAIN instances) \ (DOMAIN instances'))
    /\ UNCHANGED <<config, now, nextID, calls>>

Deregister(instanceID) ==
    /\ IF DeregisterError(instanceID) # ""
       THEN UNCHANGED <<instances, services, routes>>
       ELSE LET serviceName == instances[instanceID].ServiceName
                instanceIDs == RemoveFirst(Lookup(services, serviceName), instanceID)
            IN  /\ services' = IF Len(instanceIDs) = 0
                               THEN Delete(services, {serviceName})
                               ELSE Put(services, serviceName, instanceIDs)
                /\ routes' = IF Len(instanceIDs) = 0
                             THEN Delete(routes, { key \in DOMAIN routes :
                                                     routes[key].ServiceName = serviceName })
                             ELSE routes
                /\ instances' = Delete(instances, {instanceID})
    /\ registered' = { x \in registered : x.ServiceName \in DOMAIN services' }
    /\ removed' = removed \cup ((DOMAIN instances) \ (DOMAIN instances'))
    /\ UNCHANGED <<config, now, nextID, calls>>

\* the scan removing from 2*HeartbeatTTL on
toRemoveAtTwiceTTL ==
    { id \in DOMAIN instances :
        now - instances[id].LastHeartbeat >= config.HeartbeatTTL * 2 }

\* the ids the scan collects for removal
toRemove ==
    { id \in DOMAIN instances :
        now - instances[id].LastHeartbeat > config.HeartbeatTTL * 2 }

\* the instances after the first loop of the scan
marked ==
    [id \in DOMAIN instances |->
        IF /\ ~ (now - instances[id].LastHeartbeat > config.HeartbeatTTL * 2)
           /\ now - instances[id].LastHeartbeat > config.HeartbeatTTL
           /\ instances[id].Status = StatusHealthy
        THEN [instances[id] EXCEPT !.Status = StatusUnhealthy]
        ELSE instances[id]]

RECURSIVE removeAll(_, _, _)
removeAll(reg, order, i) ==
    IF i > Len(order) THEN reg
    ELSE removeAll(removeInstanceLocked(reg, order[i]), order, i + 1)

cleanup ==
    /\ \E order \in Orderings(toRemove) :
         LET reg == removeAll([instances |-> marked, services |-> services,
                               routes |-> routes], order, 1)
         IN  /\ instances' = reg.instances
             /\ services' = reg.services
             /\ routes' = reg.routes
    /\ registered' = { x \in registered : x.ServiceName \in DOMAIN services' }
    /\ removed' = removed \cup ((DOMAIN instances) \ (DOMAIN instances'))
    /\ UNCHANGED <<config, now, nextID, calls>>

(***************************************************************************)
(* Queries.                                                                *)
(***************************************************************************)
GetInstances(serviceName) ==
    LET present(id) == id \in DOMAIN instances
        ids == SelectSeq(Lookup(services, serviceName), present)
    IN  [i \in 1..Len(ids) |-> instances[ids[i]]]

\* GetHealthyInstances that leaves the status of an instance unread
GetHealthyInstancesAnyStatus(serviceName) ==
    LET known(id) == id \in DOMAIN instances
        ids == SelectSeq(Lookup(services, serviceName), known)
    IN  [i \in 1..Len(ids) |-> instances[ids[i]]]

GetHealthyInstances(serviceName) ==
    LET healthy(id) == id \in DOMAIN instances /\ instances[id].Status = StatusHealthy
        ids == SelectSeq(Lookup(services, serviceName), healthy)
    IN  [i \in 1..Len(ids) |-> instances[ids[i]]]

GetRoute(method, path) == Lookup(routes, method \o ":" \o path)

(***************************************************************************)
(* The registry under concurrent callers.  Register hands out ids without  *)
(* end; the specifications stop it at a bound.                             *)
(***************************************************************************)
RegisterStep(maxIDs) ==
    \E req \in RegisterRequests :
        /\ RegisterValidate(req)
        /\ nextID' <= maxIDs
        /\ Cardinality(calls') <= MaxCallers

CommitStep == \E call \in calls : RegisterCommit(call)

HeartbeatStep == \E id \in IDs : Heartbeat(id)

DeregisterStep == \E id \in IDs : Deregister(id)

Next ==
    \/ Tick /\ UNCHANGED beyond
    \/ RegisterStep(MaxInstances) /\ UNCHANGED beyond
    \/ CommitStep /\ UNCHANGED beyond
    \/ HeartbeatStep /\ UNCHANGED beyond
    \/ DeregisterStep /\ UNCHANGED beyond
    \/ cleanup /\ UNCHANGED beyond

Spec == Init /\ [][Next]_vars

\* the same registry while the clock stands still, with more instances
NextStill ==
    \/ RegisterStep(MaxStill) /\ UNCHANGED beyond
    \/ CommitStep /\ UNCHANGED beyond
    \/ HeartbeatStep /\ UNCHANGED beyond
    \/ DeregisterStep /\ UNCHANGED beyond
    \/ cleanup /\ UNCHANGED beyond

SpecStill == Init /\ [][NextStill]_vars

(***************************************************************************)
(* ListServices.  GetAllServices collects, under the read lock, pointers   *)
(* to the ServiceInstance objects of the registry; the handler writes the  *)
(* response from these pointers after the lock is released, one instance   *)
(* after the other, while Heartbeat and cleanup assign the fields of the   *)
(* same objects under the write lock.                                      *)
(***************************************************************************)
beyondLimiter == <<server, balancer, matcher, director>>

registry == <<config, now, instances, services, routes, nextID, calls, registered, removed>>

\* encoding/json writes the keys of a map in sorted order
ServiceOrder == << "a", "b" >>

\* GetAllServices: the pointers it returns, service after service
RECURSIVE GetAllServicesFrom(_)
GetAllServicesFrom(i) ==
    IF i > Len(ServiceOrder) THEN << >>
    ELSE LET present(id) == id \in DOMAIN instances
         IN  SelectSeq(Lookup(services, ServiceOrder[i]), present)
                 \o GetAllServicesFrom(i + 1)

GetAllServices == GetAllServicesFrom(1)

\* the objects behind a sequence of pointers
Deref(refs) == [id \in { refs[i] : i \in 1..Len(refs) } |-> instances[id]]

\* the handler checks the service token, calls GetAllServices and starts
\* to write the response
ListServices ==
    /\ ~ reader.active
    /\ \E tokenValid \in BOOLEAN :
          IF ~ tokenValid
          THEN UNCHANGED reader
          ELSE LET refs == GetAllServices
               IN  reader' = [active |-> TRUE,
                              refs   |-> refs,
                              objs   |-> Deref(refs),
                              out    |-> << >>,
                              views  |-> { Deref(refs) }]
    /\ UNCHANGED <<registry, afterReader>>

\* c.JSON writes the next instance from its pointer
Encode ==
    /\ reader.active
    /\ reader.refs # << >>
    /\ reader' = [reader EXCEPT !.refs = Tail(@),
                                !.out = Append(@, reader.objs[Head(reader.refs)])]
    /\ UNCHANGED <<registry, afterReader>>

\* the response is complete
Respond ==
    /\ reader.active
    /\ reader.refs = << >>
    /\ reader' = NoReader
    /\ UNCHANGED <<registry, afterReader>>

\* the objects the handler points to after a write to the registry: an
\* object that left the maps keeps the fields it had
Written(insts) ==
    IF ~ reader.active THEN reader
    ELSE LET objs == [id \in DOMAIN reader.objs |->
                         IF id \in DOMAIN insts THEN insts[id] ELSE reader.objs[id]]
         IN  [reader EXCEPT !.objs = objs, !.views = @ \cup { objs }]

ListedRegisterStep ==
    /\ RegisterValidate(GoodRequest)
    /\ nextID' <= MaxInstances
    /\ Cardinality(calls') <= MaxCallers

NextReads ==
    \/ Tick /\ reader' = Written(instances') /\ UNCHANGED afterReader
    \/ ListedRegisterStep /\ reader' = Written(instances') /\ UNCHANGED afterReader
    \/ CommitStep /\ reader' = Written(instances') /\ UNCHANGED afterReader
    \/ HeartbeatStep /\ reader' = Written(instances') /\ UNCHANGED afterReader
    \/ DeregisterStep /\ reader' = Written(instances') /\ UNCHANGED afterReader
    \/ cleanup /\ reader' = Written(instances') /\ UNCHANGED afterReader
    \/ ListServices
    \/ Encode
    \/ Respond

SpecReads == Init /\ [][NextReads]_vars

(***************************************************************************)
(* The broker alone: it mints internal tokens from external claims, other  *)
(* parties make tokens of their own, and ValidateInternalToken is called   *)
(* on the tokens that exist while time passes.                             *)
(***************************************************************************)
MaxTokens == 1       \* tokens that exist at once

\* the configurations the broker is built from
BrokerConfigs ==
    [JWTPublicKey      : { "", "auth" },
     JWTPrivateKey     : { "", "gw" },
     JWTIssuer         : { "", "api-api" },
     JWTInternalTTL    : { 1 },
     JWTAllowedIssuers : { << "auth-service" >>, << "api-api", "auth-service" >> }]

\* the external claims a token is minted from
ExternalClaimsSet ==
    { [NoClaims EXCEPT !.Subject = sub, !.Email = "u@example.com",
                       !.Scopes = << "read" >>, !.Issuer = "auth-service"] :
      sub \in { "", "user-123" } }

Audiences == { "", "a", "b" }

\* tokens made by other parties
ForeignTokens ==
    { [NoToken EXCEPT !.alg = alg, !.key = key, !.sub = "user-123", !.iss = iss,
                      !.aud = "a", !.trace = << iss >>, !.exp = exp] :
      alg \in { "RS256", "HS256" }, key \in { "gw", "other" },
      iss \in { "", "api-api", "evil" }, exp \in { 0, Unix(1) } }

InitTokens ==
    /\ config = [HeartbeatTTL |-> 1, StrictPatternMatching |-> TRUE]
    /\ now = 0
    /\ instances = EmptyMap
    /\ services = EmptyMap
    /\ routes = EmptyMap
    /\ nextID = 0
    /\ calls = {}
    /\ registered = {}
    /\ removed = {}
    /\ reader = NoReader
    /\ broker \in { NewService(cfg) : cfg \in BrokerConfigs }
    /\ tokens = {}
    /\ verdict = NoVerdict
    /\ proxy = Idle
    /\ counter = 0
    /\ limiter = NewInMemoryLimiter
    /\ server = NoServer
    /\ balancer = NoBalancer
    /\ matcher = NoMatcher
    /\ director = NoDirector

\* the broker mints an internal token
Mint ==
    /\ Cardinality(tokens) < MaxTokens
    /\ \E extClaims \in ExternalClaimsSet, audience \in Audiences :
          LET made == GenerateInternalToken(broker, extClaims, audience, now)
          IN  IF made.err # ""
              THEN UNCHANGED tokens
              ELSE tokens' = tokens \cup { [token |-> made.token, minted |-> TRUE,
                                            ext |-> extClaims, aud |-> audience] }
    /\ UNCHANGED <<registry, reader, broker, verdict, proxy, counter, limiter, beyondLimiter>>

\* a token made elsewhere arrives
Forge ==
    /\ Cardinality(tokens) < MaxTokens
    /\ \E token \in ForeignTokens :
          tokens' = tokens \cup { [token |-> token, minted |-> FALSE,
                                   ext |-> NoClaims, aud |-> token.aud] }
    /\ UNCHANGED <<registry, reader, broker, verdict, proxy, counter, limiter, beyondLimiter>>

\* a service validates a token for its own name
Verify ==
    /\ \E entry \in tokens, expectedAudience \in Audiences :
          LET got == ValidateInternalToken(broker, entry.token, expectedAudience, now)
          IN  verdict' = [called |-> TRUE, entry |-> entry, expected |-> expectedAudience,
                          at |-> now, err |-> got.err, claims |-> got.claims]
    /\ UNCHANGED <<registry, reader, broker, tokens, proxy, counter, limiter, beyondLimiter>>

\* the token is forgotten
Discard ==
    /\ tokens # {}
    /\ tokens' = {}
    /\ verdict' = NoVerdict
    /\ UNCHANGED <<registry, reader, broker, proxy, counter, limiter, beyondLimiter>>

NextTokens ==
    \/ Tick /\ UNCHANGED beyond
    \/ Mint
    \/ Forge
    \/ Verify
    \/ Discard

SpecTokens == InitTokens /\ [][NextTokens]_vars

(***************************************************************************)
(* The proxy: the route matcher, the auth gate, the round-robin selector   *)
(* and ProxyHandler.Handle.                                                *)
(***************************************************************************)
HasPrefix(str, prefix) ==
    Len(str) >= Len(prefix) /\ SubSeq(str, 1, Len(prefix)) = prefix

\* strings.Join
RECURSIVE Join(_, _)
Join(elems, sep) ==
    IF elems = << >> THEN ""
    ELSE IF Len(elems) = 1 THEN elems[1]
    ELSE elems[1] \o sep \o Join(Tail(elems), sep)

\* the loop of matchPathWithParams from segment i on
RECURSIVE matchSegments(_, _, _, _)
matchSegments(patternSegments, pathSegments, i, params) ==
    IF i > Len(patternSegments) THEN [ok |-> TRUE, params |-> params]
    ELSE IF patternSegments[i] = "*"
         THEN [ok |-> TRUE,
               params |-> Put(params, "*",
                              Join(SubSeq(pathSegments, i, Len(pathSegments)), "/"))]
    ELSE IF i > Len(pathSegments) THEN [ok |-> FALSE, params |-> EmptyMap]
    ELSE IF HasPrefix(patternSegments[i], ":")
         THEN matchSegments(patternSegments, pathSegments, i + 1,
                            Put(params,
                                SubSeq(patternSegments[i], 2, Len(patternSegments[i])),
                                pathSegments[i]))
    ELSE IF patternSegments[i] # pathSegments[i] THEN [ok |-> FALSE, params |-> EmptyMap]
    ELSE matchSegments(patternSegments, pathSegments, i + 1, params)

\* matchPathWithParams without the comparison of the numbers of segments
matchPathWithParamsAnyLength(pattern, path) ==
    matchSegments(Split(Trim(pattern, "/"), "/"), Split(Trim(path, "/"), "/"), 1, EmptyMap)

matchPathWithParams(pattern, path) ==
    LET patternSegments == Split(Trim(pattern, "/"), "/")
        pathSegments == Split(Trim(path, "/"), "/")
    IN  IF /\ Len(patternSegments) # Len(pathSegments)
           /\ ~ (/\ Len(patternSegments) > 0
                 /\ patternSegments[Len(patternSegments)] = "*"
                 /\ Len(pathSegments) >= Len(patternSegments) - 1)
        THEN [ok |-> FALSE, params |-> EmptyMap]
        ELSE matchSegments(patternSegments, pathSegments, 1, EmptyMap)

\* MatchRoute returned nil
NoMatch == [found |-> FALSE, key |-> "", params |-> EmptyMap]

\* MatchRoute without the lookup of the exact key
MatchRouteByPattern(rts, method, path) ==
    LET matching == { key \in DOMAIN rts :
                        LET parts == SplitKey(key)
                        IN  /\ Len(parts) = 2
                            /\ parts[1] = method
                            /\ matchPathWithParams(parts[2], path).ok }
    IN  IF matching = {} THEN { NoMatch }
        ELSE { [found |-> TRUE, key |-> key,
                params |-> matchPathWithParams(SplitKey(key)[2], path).params] :
               key \in matching }

\* the results MatchRoute may return on the routes rts: the exact entry, or
\* the first matching entry in the order the map is ranged over
MatchRoute(rts, method, path) ==
    LET exactKey == method \o ":" \o path
        matching == { key \in DOMAIN rts :
                        LET parts == SplitKey(key)
                        IN  /\ Len(parts) = 2
                            /\ parts[1] = method
                            /\ matchPathWithParams(parts[2], path).ok }
    IN  IF exactKey \in DOMAIN rts
        THEN { [found |-> TRUE, key |-> exactKey, params |-> EmptyMap] }
        ELSE IF matching = {} THEN { NoMatch }
        ELSE { [found |-> TRUE, key |-> key,
                params |-> matchPathWithParams(SplitKey(key)[2], path).params] :
               key \in matching }

\* Route.Public and Route.Scopes: false and nil when the request left them out
Public(route) == IF "Public" \in DOMAIN route THEN route.Public ELSE FALSE

Scopes(route) == IF "Scopes" \in DOMAIN route THEN route.Scopes ELSE << >>

\* a token string that jwt.Parse cannot split into a token
Garbled == [NoToken EXCEPT !.alg = "?"]

\* An Authorization header is the text in front of the token and the token.
\* extractBearerToken: what is left after the prefix "Bearer ", or the empty
\* string
extractBearerToken(auth) ==
    IF auth.text = "" /\ auth.token = NoToken THEN NoToken
    ELSE IF ~ HasPrefix(auth.text, "Bearer ") THEN NoToken
    ELSE IF Len(auth.text) > 7 THEN Garbled
    ELSE auth.token

hasAllScopes(provided, required) ==
    \A j \in 1..Len(required) : \E k \in 1..Len(provided) : provided[k] = required[j]

\* AuthenticateRequest that is content with one of the scopes of the route
AuthenticateRequestLaxScopes(service, entry, serviceName, auth, at) ==
    LET tokenString == extractBearerToken(auth)
        checked == ValidateExternalToken(service, tokenString, at)
        made == GenerateInternalToken(service, checked.claims, serviceName, at)
        deny(status) == [ok |-> FALSE, status |-> status, auth |-> auth, issuer |-> "", context |-> EmptyMap]
    IN  IF Public(entry.Route) THEN [ok |-> TRUE, status |-> 0, auth |-> auth, issuer |-> "", context |-> EmptyMap]
        ELSE IF tokenString = NoToken THEN deny(401)
        ELSE IF checked.err # "" THEN deny(401)
        ELSE IF /\ Len(Scopes(entry.Route)) > 0
                /\ \A j \in 1..Len(Scopes(entry.Route)) :
                      ~ hasAllScopes(checked.claims.Scopes, << Scopes(entry.Route)[j] >>)
             THEN deny(403)
        ELSE IF made.err # "" THEN deny(500)
        ELSE [ok |-> TRUE, status |-> 0,
              auth |-> [text |-> "Bearer ", token |-> made.token],
              issuer |-> checked.claims.Issuer, context |-> EmptyMap]

\* AuthenticateRequest that leaves the headers of an allowed request alone
AuthenticateRequestKeepsHeaders(service, entry, serviceName, auth, at) ==
    LET tokenString == extractBearerToken(auth)
        checked == ValidateExternalToken(service, tokenString, at)
        made == GenerateInternalToken(service, checked.claims, serviceName, at)
        deny(status) == [ok |-> FALSE, status |-> status, auth |-> auth, issuer |-> "", context |-> EmptyMap]
    IN  IF Public(entry.Route) THEN [ok |-> TRUE, status |-> 0, auth |-> auth, issuer |-> "", context |-> EmptyMap]
        ELSE IF tokenString = NoToken THEN deny(401)
        ELSE IF checked.err # "" THEN deny(401)
        ELSE IF /\ Len(Scopes(entry.Route)) > 0
                /\ ~ hasAllScopes(checked.claims.Scopes, Scopes(entry.Route))
             THEN deny(403)
        ELSE IF made.err # "" THEN deny(500)
        ELSE [ok |-> TRUE, status |-> 0, auth |-> auth, issuer |-> "", context |-> EmptyMap]

\* AuthenticateRequest: whether the request may go on, the status it is
\* answered with when it may not, the headers Authorization and
\* X-Original-Issuer of the request afterwards, and the keys it has set in
\* the context of the request: it calls c.Set nowhere
AuthenticateRequest(service, entry, serviceName, auth, at) ==
    LET tokenString == extractBearerToken(auth)
        checked == ValidateExternalToken(service, tokenString, at)
        made == GenerateInternalToken(service, checked.claims, serviceName, at)
        deny(status) == [ok |-> FALSE, status |-> status, auth |-> auth, issuer |-> "", context |-> EmptyMap]
    IN  IF Public(entry.Route) THEN [ok |-> TRUE, status |-> 0, auth |-> auth, issuer |-> "", context |-> EmptyMap]
        ELSE IF tokenString = NoToken THEN deny(401)
        ELSE IF checked.err # "" THEN deny(401)
        ELSE IF /\ Len(Scopes(entry.Route)) > 0
                /\ ~ hasAllScopes(checked.claims.Scopes, Scopes(entry.Route))
             THEN deny(403)
        ELSE IF made.err # "" THEN deny(500)
        ELSE [ok |-> TRUE, status |-> 0,
              auth |-> [text |-> "Bearer ", token |-> made.token],
              issuer |-> checked.claims.Issuer, context |-> EmptyMap]

\* NewServer: the proxy has an auth gate when a key is configured
authConfigured == broker.publicKey # "" \/ broker.privateKey # ""

\* Select that takes the element at n mod len, n the incremented counter
SelectFromNext(ids) == IF ids = << >> THEN 0 ELSE ids[((counter + 1) % Len(ids)) + 1]

\* RoundRobinBalancer.Select on a non-empty list: the counter is incremented
\* and the element at (n - 1) mod len is returned; 0 is nil
Select(ids) == IF ids = << >> THEN 0 ELSE ids[(((counter + 1) - 1) % Len(ids)) + 1]

MaxForwards == 2     \* requests the proxy forwards

\* the services behind the proxy and their routes
ProxiedRequests ==
    { [GoodRequest EXCEPT !.Routes =
        << [Method |-> "GET", Path |-> "/users/:id", Public |-> FALSE,
             Scopes |-> << "read", "write" >>],
           [Method |-> "GET", Path |-> "/open", Public |-> TRUE, Scopes |-> << >>],
           [Method |-> "GET", Path |-> "/plain", Public |-> FALSE, Scopes |-> << >>] >>],
      [GoodRequest EXCEPT !.ServiceName = "b", !.Port = 8082, !.BasePath = "/b",
                          !.Routes = << [Method |-> "GET", Path |-> "/plain"] >>] }

\* the configurations of the gateway: no key, the public key of the auth
\* service alone, and that key with a private key of the gateway
GatewayConfigs ==
    { [DefaultConfig EXCEPT !.JWTPublicKey = keys[1], !.JWTPrivateKey = keys[2]] :
      keys \in { << "", "" >>, << "auth", "" >>, << "auth", "gw" >> } }

\* the external tokens clients send
ExternalToken(key, scopes) ==
    [NoToken EXCEPT !.alg = "RS256", !.key = key, !.sub = "user-123",
                    !.email = "u@example.com", !.scopes = scopes, !.iss = "auth-service"]

\* the Authorization headers clients send
Headers ==
    { [text |-> "", token |-> NoToken],
      [text |-> "Bearer ", token |-> NoToken],
      [text |-> "Bearer ", token |-> ExternalToken("auth", << "write", "read" >>)],
      [text |-> "Bearer ", token |-> ExternalToken("auth", << "read" >>)],
      [text |-> "Bearer ", token |-> ExternalToken("other", << "read" >>)],
      [text |-> "bearer ", token |-> ExternalToken("auth", << "read" >>)] }

Paths == { "/api/users/7", "/api/open", "/api/plain", "/api/none", "/b/plain" }

InitProxy ==
    /\ config = [HeartbeatTTL |-> 1, StrictPatternMatching |-> TRUE]
    /\ now = 0
    /\ instances = EmptyMap
    /\ services = EmptyMap
    /\ routes = EmptyMap
    /\ nextID = 0
    /\ calls = {}
    /\ registered = {}
    /\ removed = {}
    /\ reader = NoReader
    /\ broker \in { NewService(cfg) : cfg \in GatewayConfigs }
    /\ tokens = {}
    /\ verdict = NoVerdict
    /\ proxy = Idle
    /\ counter = 0
    /\ limiter = NewInMemoryLimiter
    /\ server = NoServer
    /\ balancer = NoBalancer
    /\ matcher = NoMatcher
    /\ director = NoDirector

\* the auth gate of Handle: AuthenticateRequest where the middleware is
\* configured, nothing otherwise
Gate(entry, auth) ==
    IF authConfigured
    THEN AuthenticateRequest(broker, entry, entry.ServiceName, auth, now)
    ELSE [ok |-> TRUE, status |-> 0, auth |-> auth, issuer |-> "", context |-> EmptyMap]

\* the request after MatchRoute and the auth gate: answered, or allowed
Gated(match, auth) ==
    IF ~ match.found
    THEN [Idle EXCEPT !.status = 404]
    ELSE LET entry == routes[match.key]
             gate == Gate(entry, auth)
         IN  IF gate.ok
             THEN [Idle EXCEPT !.stage = "allowed", !.entry = entry, !.auth = gate.auth,
                               !.issuer = gate.issuer, !.context = gate.context]
             ELSE [Idle EXCEPT !.status = gate.status]

\* Handle up to the result of the auth gate
HandleGate(method, path) ==
    /\ proxy.stage = "idle"
    /\ counter < MaxForwards
    /\ \E match \in MatchRoute(routes, method, path) :
          \E auth \in Headers : proxy' = Gated(match, auth)
    /\ UNCHANGED <<registry, reader, broker, tokens, verdict, counter, limiter, beyondLimiter>>

\* Handle from GetHealthyInstances to the answer: the request goes to the
\* selected instance, which answers or cannot be reached.  The Director
\* leaves Authorization and X-Original-Issuer as the gate set them, so the
\* headers sent upstream are those of the allowed request.
HandleForward ==
    /\ proxy.stage = "allowed"
    /\ LET found == GetHealthyInstances(proxy.entry.ServiceName)
           ids == [i \in 1..Len(found) |-> found[i].ID]
       IN  IF ids = << >>
           THEN /\ proxy' = [Idle EXCEPT !.status = 503]
                /\ UNCHANGED counter
           ELSE /\ counter' = counter + 1
                /\ \E reached \in BOOLEAN :
                      proxy' = [Idle EXCEPT !.status = IF reached THEN 200 ELSE 502,
                                            !.upstream = Select(ids)]
    /\ UNCHANGED <<registry, reader, broker, tokens, verdict, limiter, beyondLimiter>>

ProxiedRegisterStep ==
    /\ \E req \in ProxiedRequests : RegisterValidate(req)
    /\ nextID' <= MaxInstances
    /\ calls = {}

\* The proxy reads no heartbeat time: a heartbeat only postpones what cleanup
\* does to an instance, so the registry moves here without heartbeats.
NextProxy ==
    \/ Tick /\ UNCHANGED beyond
    \/ ProxiedRegisterStep /\ UNCHANGED beyond
    \/ CommitStep /\ UNCHANGED beyond
    \/ DeregisterStep /\ UNCHANGED beyond
    \/ cleanup /\ UNCHANGED beyond
    \/ \E path \in Paths : HandleGate("GET", path)
    \/ HandleForward

SpecProxy == InitProxy /\ [][NextProxy]_vars

(***************************************************************************)
(* The rate limiters and the rate-limit gate.  The clock counts in ticks,  *)
(* and the window of one minute is Window ticks long.                      *)
(***************************************************************************)
Window == 2              \* InMemoryLimiter.window and Limiter.window
RateLimitUserRPM == 2    \* Config.RateLimitUserRPM
RateLimitIPRPM == 1      \* Config.RateLimitIPRPM
MaxAdmitted == 3         \* calls the limiter admits

\* the authenticated users ("" is none) and the client addresses of requests
Users == { "", "u1" }

ClientIPs == { "10.0.0.1" }

\* strconv.Itoa of a natural number
Digit(n) == SubSeq("0123456789", n + 1, n + 1)

RECURSIVE Itoa(_)
Itoa(n) == IF n < 10 THEN Digit(n) ELSE Itoa(n \div 10) \o Digit(n % 10)

determineKeyAndLimit(user, ip) ==
    IF user # ""
    THEN [key |-> "ratelimit:user:" \o user, limit |-> RateLimitUserRPM]
    ELSE [key |-> "ratelimit:ip:" \o ip, limit |-> RateLimitIPRPM]

\* the keys and limits the gate calls Allow with
Identities == { determineKeyAndLimit(user, ip) : user \in Users, ip \in ClientIPs }

\* the timestamps for which ts.After(windowStart) holds
After(timestamps, windowStart) ==
    LET after(ts) == ts > windowStart
    IN  SelectSeq(timestamps, after)

\* InMemoryLimiter.Allow from the timestamps it read under the key: the
\* timestamps it stores and the Result
InMemoryAllow(timestamps, limit, at) ==
    LET validTimestamps == After(timestamps, at - Window)
        count == Len(validTimestamps)
        allowed == count < limit
        remaining == IF ~ allowed \/ limit - count - 1 < 0 THEN 0 ELSE limit - count - 1
    IN  [timestamps |-> IF allowed THEN Append(validTimestamps, at) ELSE validTimestamps,
         result |-> [Allowed |-> allowed, Limit |-> limit, Remaining |-> remaining,
                     ResetAt |-> at + Window]]

\* Limiter.Allow on the sorted set of the key when the pipeline succeeds:
\* ZRemRangeByScore takes out the scores up to windowStart, ZCard counts,
\* ZAdd puts in now (a member that is there stays one member), and a denied
\* call pops the member of the least score.  The expiry of the key takes
\* out only what the next call would take out.
LimiterAllow(members, limit, at) ==
    LET kept == After(members, at - Window)
        count == Len(kept)
        added == IF \E i \in 1..Len(kept) : kept[i] = at THEN kept ELSE Append(kept, at)
        allowed == count < limit
        remaining == IF ~ allowed \/ limit - count - 1 < 0 THEN 0 ELSE limit - count - 1
    IN  [timestamps |-> IF allowed THEN added ELSE Tail(added),
         result |-> [Allowed |-> allowed, Limit |-> limit, Remaining |-> remaining,
                     ResetAt |-> at + Window]]

\* a whole call of Allow on the limiter; failed says that the pipeline of
\* the Redis limiter returned an error
Called(key, limit, failed) ==
    LET held == Lookup(limiter.requests, key)
        done == IF limiter.redis THEN LimiterAllow(held, limit, now)
                ELSE InMemoryAllow(held, limit, now)
    IN  IF failed
        THEN [limiter |-> limiter, result |-> NoResult]
        ELSE [limiter |-> [limiter EXCEPT
                              !.requests = Put(@, key, done.timestamps),
                              !.admitted = IF done.result.Allowed
                                           THEN Append(@, [key |-> key, at |-> now])
                                           ELSE @],
              result |-> done.result]

\* the errors Allow may return: none from the in-memory limiter
Failures == IF limiter.redis THEN BOOLEAN ELSE { FALSE }

\* Allow called on its own, one call after the other
Allow(key, limit) ==
    /\ limiter.inside = {}
    /\ ~ limiter.fatal
    /\ Len(limiter.admitted) < MaxAdmitted
    /\ \E failed \in Failures :
          LET called == Called(key, limit, failed)
          IN  limiter' = [called.limiter EXCEPT
                             !.last = [NoAnswer EXCEPT !.key = key, !.at = now,
                                                       !.failed = failed,
                                                       !.result = called.result]]
    /\ UNCHANGED <<registry, reader, broker, tokens, verdict, proxy, counter, beyondLimiter>>

\* RateLimitMiddleware that sets the headers of allowed requests alone
RateLimitMiddlewareBareDenial(user, ip) ==
    /\ limiter.inside = {}
    /\ ~ limiter.fatal
    /\ Len(limiter.admitted) < MaxAdmitted
    /\ \E failed \in Failures :
          LET identity == determineKeyAndLimit(user, ip)
              called == Called(identity.key, identity.limit, failed)
              result == called.result
              asked == [NoAnswer EXCEPT !.gate = TRUE, !.key = identity.key, !.at = now,
                                        !.failed = failed, !.result = result]
              headers == [name \in { "X-RateLimit-Limit", "X-RateLimit-Remaining",
                                     "X-RateLimit-Reset" } |->
                            CASE name = "X-RateLimit-Limit" -> Itoa(result.Limit)
                              [] name = "X-RateLimit-Remaining" -> Itoa(result.Remaining)
                              [] OTHER -> Itoa(Unix(result.ResetAt))]
          IN  limiter' = [called.limiter EXCEPT
                             !.last =
                                 IF failed THEN [asked EXCEPT !.handled = TRUE]
                                 ELSE IF ~ result.Allowed
                                      THEN [asked EXCEPT !.status = 429,
                                                         !.error = "rate_limit_exceeded"]
                                 ELSE [asked EXCEPT !.headers = headers, !.handled = TRUE]]
    /\ UNCHANGED <<registry, reader, broker, tokens, verdict, proxy, counter, beyondLimiter>>

\* RateLimitMiddleware on one request: handled says that c.Next() ran the
\* handlers after the gate
RateLimitMiddleware(user, ip) ==
    /\ limiter.inside = {}
    /\ ~ limiter.fatal
    /\ Len(limiter.admitted) < MaxAdmitted
    /\ \E failed \in Failures :
          LET identity == determineKeyAndLimit(user, ip)
              called == Called(identity.key, identity.limit, failed)
              result == called.result
              asked == [NoAnswer EXCEPT !.gate = TRUE, !.key = identity.key, !.at = now,
                                        !.failed = failed, !.result = result]
              headers == [name \in { "X-RateLimit-Limit", "X-RateLimit-Remaining",
                                     "X-RateLimit-Reset" } |->
                            CASE name = "X-RateLimit-Limit" -> Itoa(result.Limit)
                              [] name = "X-RateLimit-Remaining" -> Itoa(result.Remaining)
                              [] OTHER -> Itoa(Unix(result.ResetAt))]
          IN  limiter' = [called.limiter EXCEPT
                             !.last =
                                 IF failed THEN [asked EXCEPT !.handled = TRUE]
                                 ELSE IF ~ result.Allowed
                                      THEN [asked EXCEPT !.headers = headers, !.status = 429,
                                                         !.error = "rate_limit_exceeded"]
                                 ELSE [asked EXCEPT !.headers = headers, !.handled = TRUE]]
    /\ UNCHANGED <<registry, reader, broker, tokens, verdict, proxy, counter, beyondLimiter>>

InitLimiter ==
    /\ config = [HeartbeatTTL |-> 1, StrictPatternMatching |-> TRUE]
    /\ now = 0
    /\ instances = EmptyMap
    /\ services = EmptyMap
    /\ routes = EmptyMap
    /\ nextID = 0
    /\ calls = {}
    /\ registered = {}
    /\ removed = {}
    /\ reader = NoReader
    /\ broker = NewService(DefaultConfig)
    /\ tokens = {}
    /\ verdict = NoVerdict
    /\ proxy = Idle
    /\ counter = 0
    /\ limiter \in { NewInMemoryLimiter, NewLimiter }
    /\ server = NoServer
    /\ balancer = NoBalancer
    /\ matcher = NoMatcher
    /\ director = NoDirector

NextLimiter ==
    \/ Tick /\ UNCHANGED beyond
    \/ \E identity \in Identities : Allow(identity.key, identity.limit)
    \/ \E user \in Users, ip \in ClientIPs : RateLimitMiddleware(user, ip)

SpecLimiter == InitLimiter /\ [][NextLimiter]_vars

(***************************************************************************)
(* The in-memory limiter under concurrent callers.  Allow takes no lock:   *)
(* a call reads the timestamps of its key from the map and writes them     *)
(* back later, and other calls may run in between.  Where map accesses of  *)
(* two calls meet, the runtime may also stop the process with a fatal      *)
(* error.                                                                  *)
(***************************************************************************)
\* Allow up to the read of l.requests[key]
AllowRead(id, key, limit) ==
    /\ ~ limiter.fatal
    /\ \A call \in limiter.inside : call.id # id
    /\ Len(limiter.admitted) + Cardinality(limiter.inside) < MaxAdmitted
    /\ limiter' = [limiter EXCEPT
                      !.inside = @ \cup { [id |-> id, key |-> key, limit |-> limit, at |-> now,
                                           timestamps |-> Lookup(limiter.requests, key)] }]
    /\ UNCHANGED <<registry, reader, broker, tokens, verdict, proxy, counter, beyondLimiter>>

\* Allow from the write of l.requests[key] on
AllowWrite(call) ==
    /\ ~ limiter.fatal
    /\ call \in limiter.inside
    /\ LET done == InMemoryAllow(call.timestamps, call.limit, call.at)
       IN  \/ limiter' = [limiter EXCEPT
                             !.inside = @ \ { call },
                             !.requests = Put(@, call.key, done.timestamps),
                             !.admitted = IF done.result.Allowed
                                          THEN Append(@, [key |-> call.key, at |-> call.at])
                                          ELSE @,
                             !.last = [NoAnswer EXCEPT !.key = call.key, !.at = call.at,
                                                       !.result = done.result]]
           \/ /\ limiter.inside # { call }
              /\ limiter' = [limiter EXCEPT !.fatal = TRUE]
    /\ UNCHANGED <<registry, reader, broker, tokens, verdict, proxy, counter, beyondLimiter>>

InitRace ==
    /\ InitLimiter
    /\ limiter = NewInMemoryLimiter
    /\ server = NoServer
    /\ balancer = NoBalancer
    /\ matcher = NoMatcher
    /\ director = NoDirector

NextRace ==
    \/ Tick /\ UNCHANGED beyond
    \/ \E id \in 1..MaxCallers, identity \in Identities :
          AllowRead(id, identity.key, identity.limit)
    \/ \E call \in limiter.inside : AllowWrite(call)

SpecRace == InitRace /\ [][NextRace]_vars

(***************************************************************************)
(* The HTTP server.  setupRouter installs the rate limit gate on the whole  *)
(* router when a rate limiter was built, and after it the group            *)
(* /internal/registry, with ServiceAuthMiddleware in front when a jwt      *)
(* service was built.  The handlers of the group compare the header        *)
(* X-Service-Token with the service token of the registry before they call *)
(* the registry.  A header X-Service-Token is a text and a token: a header *)
(* that is a JWT has the empty text, a header that is no JWT has NoToken.   *)
(***************************************************************************)
\* Service.ValidateServiceToken: the error ("" is nil) and the subject
ValidateServiceToken(service, token, at) ==
    LET failed(err) == [err |-> err, sub |-> ""]
    IN  IF service.publicKey = "" THEN failed(ErrNoPublicKey)
        ELSE IF token = NoToken \/ token.alg \notin SigningMethodRSA
             THEN failed(ErrTokenMalformed)
        ELSE IF token.key # service.publicKey THEN failed(ErrTokenInvalidSignature)
        ELSE IF token.exp # 0 /\ Unix(at) > token.exp THEN failed(ErrTokenExpired)
        ELSE IF token.nbf # 0 /\ Unix(at) < token.nbf THEN failed(ErrTokenMalformed)
        ELSE IF token.aud # "api-gateway" THEN failed(ErrTokenMalformed)
        ELSE IF token.sub = "" THEN failed(ErrTokenMalformed)
        ELSE [err |-> "", sub |-> token.sub]

\* Registry.ValidateToken: the header against the service token of the registry
ValidateToken(header) ==
    IF server.serviceToken = "" \/ (header.text = "" /\ header.token = NoToken) THEN FALSE
    ELSE header.token = NoToken /\ header.text = server.serviceToken

\* ServiceAuthMiddleware.Authenticate: the status it aborts with (0: it calls
\* c.Next()) and the service_name it sets in the context
Authenticate(header) ==
    LET validated == ValidateServiceToken(broker, header.token, now)
    IN  IF header.text = "" /\ header.token = NoToken
        THEN [status |-> 401, error |-> "invalid_token", service_name |-> ""]
        ELSE IF validated.err # ""
        THEN [status |-> 401, error |-> "invalid_token", service_name |-> ""]
        ELSE [status |-> 0, error |-> "", service_name |-> validated.sub]

\* the service tokens of the services
ServiceJWT(key, sub, aud) ==
    [NoToken EXCEPT !.alg = "RS256", !.key = key, !.sub = sub, !.aud = aud,
                    !.iss = "auth-service"]

\* the X-Service-Token headers the services send
ServiceHeaders ==
    { [text |-> "", token |-> NoToken],
      [text |-> "test-token", token |-> NoToken],
      [text |-> "wrong-token", token |-> NoToken],
      [text |-> "", token |-> ServiceJWT("auth", "a", "api-gateway")],
      [text |-> "", token |-> ServiceJWT("auth", "b", "api-gateway")],
      [text |-> "", token |-> ServiceJWT("auth", "a", "user-service")],
      [text |-> "", token |-> ServiceJWT("other", "a", "api-gateway")] }

\* the bodies of the register requests: bound says that ShouldBindJSON
\* returned no error
ServerRequests ==
    { [bound |-> TRUE, req |-> GoodRequest],
      [bound |-> TRUE, req |-> [GoodRequest EXCEPT !.ServiceName = "b", !.BasePath = "/b"]],
      [bound |-> TRUE, req |-> [GoodRequest EXCEPT !.BasePath = ""]],
      [bound |-> FALSE, req |-> GoodRequest] }

\* the bodies of the heartbeat and deregister requests
InstanceRequests == [bound : BOOLEAN, InstanceID : IDs]

\* what the router runs in front of a handler of /internal/registry: the
\* rate limit gate of the whole router, then the middleware of the group
Routed(endpoint, header, ip) ==
    LET identity == determineKeyAndLimit("", ip)
        called == IF server.rateLimited
                  THEN Called(identity.key, identity.limit, FALSE)
                  ELSE [limiter |-> limiter, result |-> NoResult]
        limited == server.rateLimited /\ ~ called.result.Allowed
        auth == IF authConfigured THEN Authenticate(header)
                ELSE [status |-> 0, error |-> "", service_name |-> ""]
        asked == [NoReply EXCEPT !.endpoint = endpoint, !.counted = server.rateLimited,
                                 !.identity = IF limited THEN "" ELSE auth.service_name]
    IN  [limiter |-> called.limiter,
         reply |-> IF limited
                   THEN [asked EXCEPT !.status = 429, !.error = "rate_limit_exceeded"]
                   ELSE IF auth.status # 0
                   THEN [asked EXCEPT !.status = auth.status, !.error = auth.error]
                   ELSE IF ~ ValidateToken(header)
                   THEN [asked EXCEPT !.status = 401, !.error = "invalid_token"]
                   ELSE asked]

\* POST /internal/registry/register.  The answer 201 is written once the
\* registration has taken the write lock (RegisterCommit).
RegisterEndpoint(header, body, ip) ==
    LET routed == Routed("register", header, ip)
        reply == [routed.reply EXCEPT !.name = IF body.bound THEN body.req.ServiceName ELSE ""]
    IN  /\ limiter' = routed.limiter
        /\ IF reply.status # 0
           THEN /\ server' = [server EXCEPT !.last = reply]
                /\ UNCHANGED registry
           ELSE IF ~ body.bound
           THEN /\ server' = [server EXCEPT !.last = [reply EXCEPT !.status = 400,
                                                         !.error = "invalid_request"]]
                /\ UNCHANGED registry
           ELSE /\ RegisterValidate(body.req)
                /\ server' = [server EXCEPT !.last =
                                 IF calls' # calls
                                 THEN [reply EXCEPT !.status = 201, !.reached = TRUE]
                                 ELSE IF Validate(body.req) # ""
                                 THEN [reply EXCEPT !.status = 400, !.reached = TRUE,
                                                    !.error = "registration_failed"]
                                 ELSE [reply EXCEPT !.status = 409, !.reached = TRUE,
                                                    !.error = "route_collision"]]
        /\ UNCHANGED <<reader, broker, tokens, verdict, proxy, counter,
                       balancer, matcher, director>>

\* POST /internal/registry/heartbeat
HeartbeatEndpoint(header, body, ip) ==
    LET routed == Routed("heartbeat", header, ip)
        reply == routed.reply
    IN  /\ limiter' = routed.limiter
        /\ IF reply.status # 0
           THEN /\ server' = [server EXCEPT !.last = reply]
                /\ UNCHANGED registry
           ELSE IF ~ body.bound
           THEN /\ server' = [server EXCEPT !.last = [reply EXCEPT !.status = 400,
                                                         !.error = "invalid_request"]]
                /\ UNCHANGED registry
           ELSE /\ Heartbeat(body.InstanceID)
                /\ server' = [server EXCEPT !.last =
                                 IF HeartbeatError(body.InstanceID) # ""
                                 THEN [reply EXCEPT !.status = 404, !.reached = TRUE,
                                                    !.error = "instance_not_found"]
                                 ELSE [reply EXCEPT !.status = 200, !.reached = TRUE]]
        /\ UNCHANGED <<reader, broker, tokens, verdict, proxy, counter,
                       balancer, matcher, director>>

\* POST /internal/registry/deregister
DeregisterEndpoint(header, body, ip) ==
    LET routed == Routed("deregister", header, ip)
        reply == routed.reply
    IN  /\ limiter' = routed.limiter
        /\ IF reply.status # 0
           THEN /\ server' = [server EXCEPT !.last = reply]
                /\ UNCHANGED registry
           ELSE IF ~ body.bound
           THEN /\ server' = [server EXCEPT !.last = [reply EXCEPT !.status = 400,
                                                         !.error = "invalid_request"]]
                /\ UNCHANGED registry
           ELSE /\ Deregister(body.InstanceID)
                /\ server' = [server EXCEPT !.last =
                                 IF DeregisterError(body.InstanceID) # ""
                                 THEN [reply EXCEPT !.status = 404, !.reached = TRUE,
                                                    !.error = "instance_not_found"]
                                 ELSE [reply EXCEPT !.status = 200, !.reached = TRUE]]
        /\ UNCHANGED <<reader, broker, tokens, verdict, proxy, counter,
                       balancer, matcher, director>>

\* the service tokens a registry is built with: NewServer passes none, the
\* tests of the handlers pass "test-token"
ServiceTokens == { "", "test-token" }

\* NewServer(cfg)
InitServer ==
    /\ config = [HeartbeatTTL |-> 1, StrictPatternMatching |-> TRUE]
    /\ now = 0
    /\ instances = EmptyMap
    /\ services = EmptyMap
    /\ routes = EmptyMap
    /\ nextID = 0
    /\ calls = {}
    /\ registered = {}
    /\ removed = {}
    /\ reader = NoReader
    /\ broker \in { NewService(cfg) : cfg \in GatewayConfigs }
    /\ tokens = {}
    /\ verdict = NoVerdict
    /\ proxy = Idle
    /\ counter = 0
    /\ limiter = NewInMemoryLimiter
    /\ server \in { [NoServer EXCEPT !.rateLimited = limited, !.serviceToken = token] :
                    limited \in BOOLEAN, token \in ServiceTokens }
    /\ balancer = NoBalancer
    /\ matcher = NoMatcher
    /\ director = NoDirector

\* the requests the model lets through the limiter
Served == Len(limiter.admitted) < MaxAdmitted

NextServer ==
    \/ Tick /\ UNCHANGED beyond
    \/ CommitStep /\ UNCHANGED beyond
    \/ \E header \in ServiceHeaders, body \in ServerRequests, ip \in ClientIPs :
          /\ Served
          /\ calls = {}
          /\ RegisterEndpoint(header, body, ip)
          /\ nextID' <= MaxInstances
    \/ \E header \in ServiceHeaders, body \in InstanceRequests, ip \in ClientIPs :
          Served /\ HeartbeatEndpoint(header, body, ip)
    \/ \E header \in ServiceHeaders, body \in InstanceRequests, ip \in ClientIPs :
          Served /\ DeregisterEndpoint(header, body, ip)

SpecServer == InitServer /\ [][NextServer]_vars

(***************************************************************************)
(* The round-robin balancer under concurrent callers.  Select adds one to  *)
(* the counter with atomic.AddUint64 and works on the value the addition   *)
(* returned: the addition is one step, and the goroutine returns the        *)
(* instance later, after steps of other goroutines.                        *)
(***************************************************************************)
MaxSelects == 6      \* calls of Select on one balancer

\* the instance lists Select is called with, instances named by their ids
InstanceLists == { << >>, << 1 >>, << 1, 2 >>, << 1, 2, 3 >> }

\* Select that adds to the counter with a read and a write of its own: the
\* value it read may be one that another goroutine has read too
SelectAddTorn(g) ==
    /\ Len(balancer.instances) > 0
    /\ \A call \in balancer.inside : call.g # g
    /\ \E read \in 0..counter :
          /\ counter' = read + 1
          /\ balancer' = [balancer EXCEPT
                 !.inside = @ \cup { [g |-> g, before |-> read, n |-> read + 1,
                                      instance |-> balancer.instances[
                                          (read % Len(balancer.instances)) + 1]] },
                 !.overlapped = @ \/ balancer.inside # {}]

\* Select up to and with atomic.AddUint64
SelectAdd(g) ==
    /\ Len(balancer.instances) > 0
    /\ \A call \in balancer.inside : call.g # g
    /\ counter' = counter + 1
    /\ balancer' = [balancer EXCEPT
           !.inside = @ \cup { [g |-> g, before |-> counter, n |-> counter + 1,
                                instance |-> Select(balancer.instances)] },
           !.overlapped = @ \/ balancer.inside # {}]

\* Select returns the instance at the index it computed
SelectReturn(call) ==
    /\ call \in balancer.inside
    /\ balancer' = [balancer EXCEPT !.inside = @ \ { call },
                                    !.returned = Append(@, call)]
    /\ UNCHANGED counter

\* Select on an empty list: nil, and the counter is not touched
SelectNil(g) ==
    /\ Len(balancer.instances) = 0
    /\ balancer' = [balancer EXCEPT
           !.returned = Append(@, [g |-> g, before |-> counter, n |-> 0,
                                   instance |-> Select(balancer.instances)])]
    /\ UNCHANGED counter

\* NewRoundRobinBalancer()
InitBalancer ==
    /\ config = [HeartbeatTTL |-> 1, StrictPatternMatching |-> TRUE]
    /\ now = 0
    /\ instances = EmptyMap
    /\ services = EmptyMap
    /\ routes = EmptyMap
    /\ nextID = 0
    /\ calls = {}
    /\ registered = {}
    /\ removed = {}
    /\ reader = NoReader
    /\ broker = NewService(DefaultConfig)
    /\ tokens = {}
    /\ verdict = NoVerdict
    /\ proxy = Idle
    /\ counter = 0
    /\ limiter = NewInMemoryLimiter
    /\ server = NoServer
    /\ balancer \in { [NoBalancer EXCEPT !.instances = list] : list \in InstanceLists }
    /\ matcher = NoMatcher
    /\ director = NoDirector

\* the calls of Select so far
Selects == Len(balancer.returned) + Cardinality(balancer.inside)

NextBalancer ==
    \/ \E g \in 1..MaxCallers :
          /\ Selects < MaxSelects
          /\ SelectAdd(g)
          /\ UNCHANGED <<registry, reader, broker, tokens, verdict, proxy, limiter,
                         server, matcher, director>>
    \/ \E call \in balancer.inside :
          /\ SelectReturn(call)
          /\ UNCHANGED <<registry, reader, broker, tokens, verdict, proxy, limiter,
                         server, matcher, director>>
    \/ \E g \in 1..MaxCallers :
          /\ Selects < MaxSelects
          /\ SelectNil(g)
          /\ UNCHANGED <<registry, reader, broker, tokens, verdict, proxy, limiter,
                         server, matcher, director>>

SpecBalancer == InitBalancer /\ [][NextBalancer]_vars

(***************************************************************************)
(* The route matcher on its own: MatchRoute called on the routes that      *)
(* registrations have installed.                                           *)
(***************************************************************************)
\* the routes service a registers under /api
MatchedRoutes ==
    << Route("GET", "/users"), Route("POST", "/users"), Route("GET", "/users/:id"),
       Route("GET", "/users/me"), Route("GET", "/:kind/:id"), Route("GET", "/*/x") >>

\* the routes service b registers under /static
StaticRoutes == << Route("GET", "/*") >>

\* the elements of rs at the positions chosen, in the order of rs
RECURSIVE Chosen(_, _, _)
Chosen(rs, chosen, i) ==
    IF i > Len(rs) THEN << >>
    ELSE IF i \in chosen THEN << rs[i] >> \o Chosen(rs, chosen, i + 1)
    ELSE Chosen(rs, chosen, i + 1)

\* the routes map after a has registered the routes as and b the routes bs
Installed(as, bs) ==
    LET a == [GoodRequest EXCEPT !.Routes = as]
        b == [GoodRequest EXCEPT !.ServiceName = "b", !.Port = 8082,
                                 !.BasePath = "/static", !.Routes = bs]
    IN  installRoutes(installRoutes(EmptyMap, a, as, 0, 1), b, bs, 0, 1)

\* the requests the matcher is called for
MatchedMethods == { "GET", "POST", "PUT" }

MatchedPaths ==
    { "/api/users", "/api/users/", "/api/users/me", "/api/users/7", "/api/users/7/posts",
      "/api", "/static/css/style.css", "/static" }

InitMatcher ==
    /\ config = [HeartbeatTTL |-> 1, StrictPatternMatching |-> FALSE]
    /\ now = 0
    /\ instances = EmptyMap
    /\ services = EmptyMap
    /\ \E as \in SUBSET (1..Len(MatchedRoutes)), bs \in SUBSET (1..Len(StaticRoutes)) :
          routes = Installed(Chosen(MatchedRoutes, as, 1), Chosen(StaticRoutes, bs, 1))
    /\ nextID = 0
    /\ calls = {}
    /\ registered = {}
    /\ removed = {}
    /\ reader = NoReader
    /\ broker = NewService(DefaultConfig)
    /\ tokens = {}
    /\ verdict = NoVerdict
    /\ proxy = Idle
    /\ counter = 0
    /\ limiter = NewInMemoryLimiter
    /\ server = NoServer
    /\ balancer = NoBalancer
    /\ matcher = NoMatcher
    /\ director = NoDirector

\* one call of MatchRoute
Match(method, path) ==
    /\ \E result \in MatchRoute(routes, method, path) :
          matcher' = [called |-> TRUE, method |-> method, path |-> path, result |-> result]
    /\ UNCHANGED <<registry, reader, broker, tokens, verdict, proxy, counter, limiter,
                   server, balancer, director>>

NextMatcher == \E method \in MatchedMethods, path \in MatchedPaths : Match(method, path)

SpecMatcher == InitMatcher /\ [][NextMatcher]_vars

(***************************************************************************)
(* Run and Shutdown.  Run starts the cleanup goroutine and the HTTP        *)
(* server.  The goroutine waits in a select for the ticker and the stop    *)
(* channel; when both are ready the select takes either.  Shutdown calls   *)
(* Registry.Stop, closes the Redis client if there is one, and shuts down  *)
(* the HTTP server.                                                        *)
(***************************************************************************)
\* Server.Run has started the goroutine and the HTTP server
InitShutdown ==
    /\ config = [HeartbeatTTL |-> 1, StrictPatternMatching |-> TRUE]
    /\ now = 0
    /\ instances = EmptyMap
    /\ services = EmptyMap
    /\ routes = EmptyMap
    /\ nextID = 0
    /\ calls = {}
    /\ registered = {}
    /\ removed = {}
    /\ reader = NoReader
    /\ broker = NewService(DefaultConfig)
    /\ tokens = {}
    /\ verdict = NoVerdict
    /\ proxy = Idle
    /\ counter = 0
    /\ limiter = NewInMemoryLimiter
    /\ server \in { [NoServer EXCEPT !.loop = "select", !.redisClient = client,
                                     !.httpServer = "serving", !.pc = "running"] :
                    client \in { "", "open" } }
    /\ balancer = NoBalancer
    /\ matcher = NoMatcher
    /\ director = NoDirector

\* what the steps of Run and Shutdown leave alone
besideServer == <<reader, broker, tokens, verdict, proxy, counter, limiter,
                  balancer, matcher, director>>

\* cleanupLoop: the select takes the tick and runs the scan
LoopCleanup ==
    /\ server.loop = "select"
    /\ cleanup
    /\ UNCHANGED <<server, besideServer>>

\* cleanupLoop: the select takes the closed stop channel and the goroutine
\* returns
LoopReturn ==
    /\ server.loop = "select"
    /\ server.stopCh
    /\ server' = [server EXCEPT !.loop = "returned"]
    /\ UNCHANGED <<registry, besideServer>>

\* Shutdown: s.registry.Stop() closes the stop channel and returns
ShutdownStop ==
    /\ server.pc = "running"
    /\ server' = [server EXCEPT !.stopCh = TRUE, !.pc = "stopped"]
    /\ UNCHANGED <<registry, besideServer>>

\* Shutdown: s.redisClient.Close(), and the return of its error
ShutdownClose ==
    /\ server.pc = "stopped"
    /\ IF server.redisClient = ""
       THEN server' = [server EXCEPT !.pc = "closed"]
       ELSE \E failed \in BOOLEAN :
               server' = [server EXCEPT !.redisClient = "closed",
                                        !.pc = IF failed THEN "failed" ELSE "closed"]
    /\ UNCHANGED <<registry, besideServer>>

\* Shutdown: s.httpServer.Shutdown(ctx)
ShutdownServer ==
    /\ server.pc = "closed"
    /\ server' = [server EXCEPT !.httpServer = "shut down", !.pc = "done"]
    /\ UNCHANGED <<registry, besideServer>>

\* the registry is called by the handlers of the HTTP server
Serving == server.httpServer = "serving"

NextShutdown ==
    \/ Tick /\ UNCHANGED beyond
    \/ Serving /\ RegisterStep(MaxInstances) /\ UNCHANGED beyond
    \/ Serving /\ CommitStep /\ UNCHANGED beyond
    \/ LoopCleanup
    \/ LoopReturn
    \/ ShutdownStop
    \/ ShutdownClose
    \/ ShutdownServer

SpecShutdown == InitShutdown /\ [][NextShutdown]_vars

(***************************************************************************)
(* The trace of a token.  The gateway mints an internal token for a        *)
(* request; a token that ValidateInternalToken accepts is minted again for *)
(* another audience with GenerateServiceToken, and the token made that way *)
(* may be minted again.  The token of the request is kept with the number  *)
(* of times it was minted again.                                           *)
(***************************************************************************)
MaxReminted == 3     \* times a token is minted again

\* the brokers: a key pair of the gateway, and the own issuer among the
\* allowed issuers as the tests of the service have it, or the private key
\* missing
TraceConfigs ==
    { [DefaultConfig EXCEPT !.JWTPublicKey = keys[1], !.JWTPrivateKey = keys[2],
                            !.JWTAllowedIssuers = << "api-api", "auth-service" >>] :
      keys \in { << "gw", "gw" >>, << "gw", "" >> } }

InitTrace ==
    /\ config = [HeartbeatTTL |-> 1, StrictPatternMatching |-> TRUE]
    /\ now = 0
    /\ instances = EmptyMap
    /\ services = EmptyMap
    /\ routes = EmptyMap
    /\ nextID = 0
    /\ calls = {}
    /\ registered = {}
    /\ removed = {}
    /\ reader = NoReader
    /\ broker \in { NewService(cfg) : cfg \in TraceConfigs }
    /\ tokens = {}
    /\ verdict = NoVerdict
    /\ proxy = Idle
    /\ counter = 0
    /\ limiter = NewInMemoryLimiter
    /\ server = NoServer
    /\ balancer = NoBalancer
    /\ matcher = NoMatcher
    /\ director = NoDirector

\* the gateway mints the internal token of a request
MintInternal(extClaims, audience) ==
    /\ tokens = {}
    /\ LET made == GenerateInternalToken(broker, extClaims, audience, now)
       IN  /\ tokens' = IF made.err # "" THEN tokens
                        ELSE { [token |-> made.token, minted |-> TRUE, ext |-> extClaims,
                                aud |-> audience, reminted |-> 0] }
           /\ verdict' = [NoVerdict EXCEPT !.called = TRUE, !.at = now, !.err = made.err]
    /\ UNCHANGED <<registry, reader, broker, proxy, counter, limiter, beyondLimiter>>

\* a token that exists is validated and minted again for the audience
Remint(held, audience) ==
    /\ held \in tokens
    /\ held.reminted < MaxReminted
    /\ LET validated == ValidateInternalToken(broker, held.token, held.aud, now)
           made == GenerateServiceToken(broker, validated.claims, audience, now)
       IN  /\ validated.err = ""
           /\ tokens' = IF made.err # "" THEN tokens
                        ELSE { [token |-> made.token, minted |-> TRUE,
                                ext |-> held.ext, aud |-> audience,
                                reminted |-> held.reminted + 1] }
           /\ verdict' = [called |-> TRUE, entry |-> made.token.trace,
                          expected |-> audience, at |-> now, err |-> made.err,
                          claims |-> validated.claims]
    /\ UNCHANGED <<registry, reader, broker, proxy, counter, limiter, beyondLimiter>>

NextTrace ==
    \/ Tick /\ UNCHANGED beyond
    \/ \E extClaims \in ExternalClaimsSet, audience \in { "a", "b" } :
          MintInternal(extClaims, audience)
    \/ \E held \in tokens, audience \in { "a", "b" } : Remint(held, audience)

SpecTrace == InitTrace /\ [][NextTrace]_vars

(***************************************************************************)
(* External tokens.  Clients present tokens signed with one of several     *)
(* algorithms, by the auth service or by someone else, and                  *)
(* ValidateExternalToken is called on them while time passes.               *)
(***************************************************************************)
\* the algorithms of the tokens clients present
Algorithms == { "RS256", "RS384", "RS512", "PS256", "HS256", "none" }

\* the tokens clients present: "auth" is the key pair of the auth service; a
\* token of algorithm none carries no signature
PresentedTokens ==
    { [ExternalToken(IF alg = "none" THEN "" ELSE key, << "read" >>)
          EXCEPT !.alg = alg, !.sub = sub, !.exp = exp] :
      alg \in Algorithms, key \in { "auth", "other" }, sub \in { "", "user-123" },
      exp \in { 0, Unix(1) } }

InitExternal ==
    /\ config = [HeartbeatTTL |-> 1, StrictPatternMatching |-> TRUE]
    /\ now = 0
    /\ instances = EmptyMap
    /\ services = EmptyMap
    /\ routes = EmptyMap
    /\ nextID = 0
    /\ calls = {}
    /\ registered = {}
    /\ removed = {}
    /\ reader = NoReader
    /\ broker \in { NewService(cfg) : cfg \in GatewayConfigs }
    /\ tokens = {}
    /\ verdict = NoVerdict
    /\ proxy = Idle
    /\ counter = 0
    /\ limiter = NewInMemoryLimiter
    /\ server = NoServer
    /\ balancer = NoBalancer
    /\ matcher = NoMatcher
    /\ director = NoDirector

\* one call of ValidateExternalToken
VerifyExternal(token) ==
    /\ LET got == ValidateExternalToken(broker, token, now)
       IN  verdict' = [called |-> TRUE, entry |-> token, expected |-> "", at |-> now,
                       err |-> got.err, claims |-> got.claims]
    /\ UNCHANGED <<registry, reader, broker, tokens, proxy, counter, limiter, beyondLimiter>>

NextExternal ==
    \/ Tick /\ UNCHANGED beyond
    \/ \E token \in PresentedTokens : VerifyExternal(token)

SpecExternal == InitExternal /\ [][NextExternal]_vars

(***************************************************************************)
(* The Director of the reverse proxy.  It rewrites the headers of the      *)
(* request that goes upstream: a request is its headers (a map from names  *)
(* to values, a header that is absent has no key), its Host, the address   *)
(* of its client and whether it arrived over TLS.                          *)
(***************************************************************************)
hopByHopHeaders ==
    << "Connection", "Keep-Alive", "Proxy-Authenticate", "Proxy-Authorization", "Te",
       "Trailers", "Transfer-Encoding", "Upgrade" >>

\* Header.Get: the empty string for a header that is absent
Get(headers, name) == IF name \in DOMAIN headers THEN headers[name] ELSE ""

\* the scheme the Director writes to X-Forwarded-Proto
ForwardedProto(tls, forwardedProto) ==
    LET proto == IF tls THEN "https" ELSE "http"
    IN  IF forwardedProto # "" THEN forwardedProto ELSE proto

\* the headers of the upstream request
Director(request, serviceName) ==
    LET kept == Delete(request.headers,
                       { hopByHopHeaders[i] : i \in 1..Len(hopByHopHeaders) })
        prior == Get(kept, "X-Forwarded-For")
        clientIP == IF prior # "" THEN prior \o ", " \o request.clientIP
                    ELSE request.clientIP
        for == Put(kept, "X-Forwarded-For", clientIP)
        host == IF request.host # "" THEN Put(for, "X-Forwarded-Host", request.host)
                ELSE for
        proto == Put(host, "X-Forwarded-Proto",
                     ForwardedProto(request.tls, Get(request.headers, "X-Forwarded-Proto")))
        id == IF Get(request.headers, "X-Request-ID") # ""
              THEN Put(proto, "X-Request-ID", Get(request.headers, "X-Request-ID"))
              ELSE proto
    IN  Put(id, "X-Forwarded-Service", serviceName)

\* the headers of the requests clients send
RequestHeaders ==
    { [name \in names |-> CASE name = "X-Forwarded-Proto" -> proto
                            [] name = "X-Forwarded-For" -> "192.0.2.7"
                            [] name = "X-Request-ID" -> "test-request-123"
                            [] name = "Connection" -> "keep-alive"
                            [] OTHER -> "custom-value"] :
      names \in SUBSET { "X-Forwarded-Proto", "X-Forwarded-For", "X-Request-ID",
                         "Connection", "X-Custom-Header" },
      proto \in { "http", "https" } }

ProxiedHosts == { "", "gateway.example.com" }

InitDirector ==
    /\ config = [HeartbeatTTL |-> 1, StrictPatternMatching |-> TRUE]
    /\ now = 0
    /\ instances = EmptyMap
    /\ services = EmptyMap
    /\ routes = EmptyMap
    /\ nextID = 0
    /\ calls = {}
    /\ registered = {}
    /\ removed = {}
    /\ reader = NoReader
    /\ broker = NewService(DefaultConfig)
    /\ tokens = {}
    /\ verdict = NoVerdict
    /\ proxy = Idle
    /\ counter = 0
    /\ limiter = NewInMemoryLimiter
    /\ server = NoServer
    /\ balancer = NoBalancer
    /\ matcher = NoMatcher
    /\ director = NoDirector

\* the Director rewrites one request
Direct(request, serviceName) ==
    /\ director' = [called |-> TRUE, tls |-> request.tls, incoming |-> request.headers,
                    upstream |-> Director(request, serviceName)]
    /\ UNCHANGED <<registry, reader, broker, tokens, verdict, proxy, counter, limiter,
                   server, balancer, matcher>>

NextDirector ==
    \E headers \in RequestHeaders, host \in ProxiedHosts, tls \in BOOLEAN,
       serviceName \in { "a", "b" } :
          Direct([headers |-> headers, host |-> host, clientIP |-> "10.0.0.1",
                  tls |-> tls], serviceName)

SpecDirector == InitDirector /\ [][NextDirector]_vars

(***************************************************************************)
(* Serial registration and the matcher.  Services register one after the   *)
(* other, each call running from its checks to its writes before the next  *)
(* begins, and MatchRoute is called on the routes they have installed.     *)
(***************************************************************************)
MaxSerial == 2       \* instance ids handed out by the serial calls

\* the routes the services declare under /api
SerialRoutes ==
    { Route("GET", "/files/*"), Route("GET", "/files/css/:name"),
      Route("GET", "/users/{id}"), Route("GET", "/users/:id"),
      Route("GET", "/users/me"), Route("POST", "/users/:id") }

SerialRequests ==
    { [GoodRequest EXCEPT !.ServiceName = s, !.Routes = << r >>] :
        s \in ServiceNames, r \in SerialRoutes }

SerialMethods == { "GET", "POST" }

SerialPaths ==
    { "/api/files/css/a", "/api/users/7", "/api/users/me" }

InitSerial ==
    /\ config \in [ HeartbeatTTL : {1}, StrictPatternMatching : BOOLEAN ]
    /\ now = 0
    /\ instances = EmptyMap
    /\ services = EmptyMap
    /\ routes = EmptyMap
    /\ nextID = 0
    /\ calls = {}
    /\ registered = {}
    /\ removed = {}
    /\ reader = NoReader
    /\ broker = NewService(DefaultConfig)
    /\ tokens = {}
    /\ verdict = NoVerdict
    /\ proxy = Idle
    /\ counter = 0
    /\ limiter = NewInMemoryLimiter
    /\ server = NoServer
    /\ balancer = NoBalancer
    /\ matcher = NoMatcher
    /\ director = NoDirector

\* Register from its first line to its last with no other call in between
Register(req) ==
    /\ \E check \in RegisterChecks(req) :
         IF check.err # ""
         THEN UNCHANGED <<instances, services, routes, nextID, registered>>
         ELSE /\ instances' = Put(instances, NewID, NewInstance(WithHealthURL(req), NewID, now))
              /\ services' = Put(services, req.ServiceName,
                                 Lookup(services, req.ServiceName) \o << NewID >>)
              /\ routes' = installRoutes(routes, WithHealthURL(req), req.Routes, now, 1)
              /\ nextID' = nextID + 1
              /\ registered' = registered \cup
                                 { [ServiceName |-> req.ServiceName,
                                    BasePath    |-> req.BasePath,
                                    Route       |-> req.Routes[i]] : i \in 1..Len(req.Routes) }
    /\ UNCHANGED <<config, now, calls, removed>>

RegisterSerial ==
    /\ \E req \in SerialRequests : Register(req)
    /\ nextID' <= MaxSerial
    /\ UNCHANGED beyond

MatchSerial == \E method \in SerialMethods, path \in SerialPaths : Match(method, path)

NextSerial ==
    \/ RegisterSerial
    \/ MatchSerial

SpecSerial == InitSerial /\ [][NextSerial]_vars

(***************************************************************************)
(* Requests to several services through the one balancer of the proxy.     *)
(* The services and their instances are registered and stay as they are;   *)
(* the gateway has no keys, so that Handle has no auth gate.               *)
(***************************************************************************)
MaxProxied == 5      \* requests the proxy passes to Select

\* the request that registered an instance of the service
SharedRequest(serviceName) ==
    [GoodRequest EXCEPT !.ServiceName = serviceName,
                        !.BasePath = "/" \o serviceName,
                        !.Routes = << Route("GET", "/plain") >>]

\* the paths of the requests: one of each service and one of none
SharedPaths == { "/a/plain", "/b/plain", "/c/plain" }

InitShared ==
    /\ config = [HeartbeatTTL |-> 1, StrictPatternMatching |-> TRUE]
    /\ now = 0
    /\ \E na \in 1..3, nb \in 1..2 :
          /\ instances = [id \in 1..(na + nb) |->
                            NewInstance(WithHealthURL(SharedRequest(IF id <= na THEN "a"
                                                                    ELSE "b")), id, 0)]
          /\ services = Put(Put(EmptyMap, "a", [i \in 1..na |-> i]),
                            "b", [i \in 1..nb |-> na + i])
          /\ nextID = na + nb
    /\ routes = installRoutes(installRoutes(EmptyMap, SharedRequest("a"),
                                            SharedRequest("a").Routes, 0, 1),
                              SharedRequest("b"), SharedRequest("b").Routes, 0, 1)
    /\ calls = {}
    /\ registered = {}
    /\ removed = {}
    /\ reader = NoReader
    /\ broker = NewService(DefaultConfig)
    /\ tokens = {}
    /\ verdict = NoVerdict
    /\ proxy = Idle
    /\ counter = 0
    /\ limiter = NewInMemoryLimiter
    /\ server = NoServer
    /\ balancer = NoBalancer
    /\ matcher = NoMatcher
    /\ director = NoDirector

\* Handle on one request from MatchRoute to Select: 404 without a route,
\* 503 without a healthy instance, and otherwise the instance Select
\* returns, kept with the value of the counter in balancer.returned
Handle(method, path) ==
    /\ \E match \in MatchRoute(routes, method, path) :
          IF ~ match.found
          THEN /\ proxy' = [Idle EXCEPT !.status = 404]
               /\ UNCHANGED <<counter, balancer>>
          ELSE LET entry == routes[match.key]
                   gate == Gate(entry, "")
                   found == GetHealthyInstances(entry.ServiceName)
                   ids == [i \in 1..Len(found) |-> found[i].ID]
               IN  IF ~ gate.ok
                   THEN /\ proxy' = [Idle EXCEPT !.status = gate.status]
                        /\ UNCHANGED <<counter, balancer>>
                   ELSE IF ids = << >>
                   THEN /\ proxy' = [Idle EXCEPT !.status = 503]
                        /\ UNCHANGED <<counter, balancer>>
                   ELSE /\ counter' = counter + 1
                        /\ proxy' = [Idle EXCEPT !.entry = entry, !.upstream = Select(ids)]
                        /\ balancer' = [balancer EXCEPT
                               !.returned = Append(@, [g |-> 0, before |-> counter,
                                                       n |-> counter + 1,
                                                       instance |-> Select(ids)])]
    /\ UNCHANGED <<registry, reader, broker, tokens, verdict, limiter, server, matcher,
                   director>>

NextShared ==
    \E path \in SharedPaths :
        /\ Len(balancer.returned) < MaxProxied
        /\ Handle("GET", path)

SpecShared == InitShared /\ [][NextShared]_vars

(***************************************************************************)
(* The pipeline of a proxied request.  setupRouter puts the rate-limit     *)
(* gate on the router in front of every handler, and the proxy, with the   *)
(* auth gate inside Handle, is the handler of the requests no route of the *)
(* router takes: a request passes the rate-limit gate first and reaches    *)
(* MatchRoute and the auth gate only when that gate lets it through.       *)
(***************************************************************************)
\* the service behind the proxy
PipelineRequest ==
    [GoodRequest EXCEPT !.Routes =
        << [Method |-> "GET", Path |-> "/users/:id", Public |-> FALSE,
            Scopes |-> << "read" >>],
           [Method |-> "GET", Path |-> "/open", Public |-> TRUE, Scopes |-> << >>] >>]

PipelinePaths == { "/api/users/7", "/api/open", "/api/none" }

\* the limiter after RateLimitMiddleware has run on a request whose context
\* holds the user ("" when it holds none)
RateLimited(user, ip, failed) ==
    LET identity == determineKeyAndLimit(user, ip)
        called == Called(identity.key, identity.limit, failed)
        result == called.result
        asked == [NoAnswer EXCEPT !.gate = TRUE, !.key = identity.key, !.at = now,
                                  !.failed = failed, !.result = result]
        headers == [name \in { "X-RateLimit-Limit", "X-RateLimit-Remaining",
                               "X-RateLimit-Reset" } |->
                      CASE name = "X-RateLimit-Limit" -> Itoa(result.Limit)
                        [] name = "X-RateLimit-Remaining" -> Itoa(result.Remaining)
                        [] OTHER -> Itoa(Unix(result.ResetAt))]
    IN  [called.limiter EXCEPT
            !.last = IF failed THEN [asked EXCEPT !.handled = TRUE]
                     ELSE IF ~ result.Allowed
                          THEN [asked EXCEPT !.headers = headers, !.status = 429,
                                             !.error = "rate_limit_exceeded"]
                     ELSE [asked EXCEPT !.headers = headers, !.handled = TRUE]]

InitPipeline ==
    /\ config = [HeartbeatTTL |-> 1, StrictPatternMatching |-> TRUE]
    /\ now = 0
    /\ instances = Put(EmptyMap, 1, NewInstance(WithHealthURL(PipelineRequest), 1, 0))
    /\ services = Put(EmptyMap, PipelineRequest.ServiceName, << 1 >>)
    /\ routes = installRoutes(EmptyMap, PipelineRequest, PipelineRequest.Routes, 0, 1)
    /\ nextID = 1
    /\ calls = {}
    /\ registered = {}
    /\ removed = {}
    /\ reader = NoReader
    /\ broker \in { NewService(cfg) : cfg \in GatewayConfigs }
    /\ tokens = {}
    /\ verdict = NoVerdict
    /\ proxy = Idle
    /\ counter = 0
    /\ limiter = NewInMemoryLimiter
    /\ server = NoServer
    /\ balancer = NoBalancer
    /\ matcher = NoMatcher
    /\ director = NoDirector

\* a request goes through the router: the rate-limit gate on the context of
\* the new request, which holds no key yet, and then Handle up to the result
\* of the auth gate
Serve(auth, ip, path) ==
    /\ proxy.stage = "idle"
    /\ limiter.inside = {}
    /\ ~ limiter.fatal
    /\ Len(limiter.admitted) < MaxAdmitted
    /\ \E failed \in Failures :
          LET context == EmptyMap
              limited == RateLimited(Get(context, "user_id"), ip, failed)
          IN  /\ limiter' = limited
              /\ IF limited.last.handled
                 THEN \E match \in MatchRoute(routes, "GET", path) :
                          proxy' = Gated(match, auth)
                 ELSE proxy' = [Idle EXCEPT !.status = limited.last.status]
    /\ UNCHANGED <<registry, reader, broker, tokens, verdict, counter, beyondLimiter>>

NextPipeline ==
    \/ Tick /\ UNCHANGED beyond
    \/ \E auth \in Headers, ip \in ClientIPs, path \in PipelinePaths : Serve(auth, ip, path)
    \/ HandleForward

SpecPipeline == InitPipeline /\ [][NextPipeline]_vars

(***************************************************************************)
(* Properties of the registry.                                             *)
(***************************************************************************)
Buckets == DOMAIN services

\* C1: in every reachable state, every id listed in services[s] is a key of
\* instances whose service_name is s, every instance is listed in the bucket
\* of its own service, and no id occurs twice in a bucket.
C1_BucketsMatchInstances ==
    /\ \A s \in Buckets : \A i \in 1..Len(services[s]) :
          /\ services[s][i] \in DOMAIN instances
          /\ instances[services[s][i]].ServiceName = s
    /\ \A id \in DOMAIN instances :
          /\ instances[id].ServiceName \in Buckets
          /\ \E i \in 1..Len(services[instances[id].ServiceName]) :
                services[instances[id].ServiceName][i] = id
    /\ \A s \in Buckets : \A i, j \in 1..Len(services[s]) :
          i # j => services[s][i] # services[s][j]

\* a bucket of two instances, one of which the cleanup scan has marked
C1_Witness ==
    \E s \in Buckets :
        /\ Len(services[s]) = 2
        /\ \E i \in 1..2 : instances[services[s][i]].Status = StatusUnhealthy

\* C2: in every reachable state, every RouteEntry names a service that has a
\* non-empty bucket: the routes of a service go with its last instance.
C2_RoutesHaveLiveService ==
    \A key \in DOMAIN routes :
        /\ routes[key].ServiceName \in Buckets
        /\ Len(services[routes[key].ServiceName]) >= 1

\* an instance is gone, its service has no bucket any more, and the routes
\* of the other service are still installed
C2_Witness ==
    /\ removed # {}
    /\ Cardinality(Buckets) = 1
    /\ DOMAIN routes # {}
    /\ nextID = Cardinality(removed) + Cardinality(DOMAIN instances)
    /\ \A id \in DOMAIN instances : instances[id].RegisteredAt = now

\* a Register call with this request returns an error in the current state
RegisterFails(req) == \A check \in RegisterChecks(req) : check.err # ""

ValidInstance(instance) ==
    /\ instance.ServiceName # ""
    /\ instance.Host # ""
    /\ instance.Port >= 1
    /\ instance.Port <= 65535

C3_Step ==
    /\ \A req \in RegisterRequests :
          LET checks == RegisterChecks(req)
              fails == \A check \in checks : check.err # ""
          IN  /\ req \in InvalidRequests => fails
              /\ fails /\ req \in ValidRequests =>
                    \A check \in checks :
                       /\ check.err = ErrCollision
                       /\ Len(check.collisions) > 0
                       /\ \A i \in 1..Len(check.collisions) :
                             /\ check.collisions[i].RegisteredBy # req.ServiceName
                             /\ check.collisions[i].RegisteredBy \in Buckets
              /\ fails /\ RegisterValidate(req) =>
                    UNCHANGED <<instances, services, routes, calls, nextID>>
    /\ \A id \in DOMAIN instances' : ValidInstance(instances'[id])
    /\ \A key \in DOMAIN routes' : routes'[key].BasePath # ""

\* C3: a Register that fails, on an invalid request (empty service_name,
\* host or base_path, port 0, -1 or 65536, no routes) or on a collision,
\* leaves instances, services and routes as they were and installs nothing;
\* a collision failure is a CollisionError that carries the collisions.
C3_FailedRegisterWritesNothing == [][UNCHANGED vars \/ C3_Step]_vars

\* a state in which a valid request is refused for its collisions
C3_Witness ==
    /\ Cardinality(calls) < MaxCallers
    /\ \E req \in ValidRequests : RegisterFails(req)

\* the exact collisions with an entry of service a among the collisions
ExactWith(collisions, a) ==
    { i \in 1..Len(collisions) :
        /\ collisions[i].CollisionType = ExactCollision
        /\ collisions[i].RegisteredBy = a }

\* C4: once service a has registered route r under base path p and still
\* has an instance, ValidateRoutes(b, p, [r]) returns an exact collision
\* registered by a for every other service b, and ValidateRoutes(a, p, [r])
\* returns no collision.
C4_RegisteredRouteIsOwned ==
    \A x \in registered :
        x.ServiceName \in Buckets =>
            /\ \A b \in ServiceNames \ {x.ServiceName} :
                  \A collisions \in ValidateRoutes(routes, config.StrictPatternMatching,
                                                   b, x.BasePath, << x.Route >>) :
                      ExactWith(collisions, x.ServiceName) # {}
            /\ ValidateRoutes(routes, config.StrictPatternMatching,
                              x.ServiceName, x.BasePath, << x.Route >>) = { << >> }

Elapsed(id) == now - instances[id].LastHeartbeat

Expired(id) == Elapsed(id) > 2 * config.HeartbeatTTL

C5_Step ==
    cleanup =>
       /\ \A id \in DOMAIN instances :
             IF Expired(id)
             THEN id \notin DOMAIN instances'
             ELSE /\ id \in DOMAIN instances'
                  /\ IF Elapsed(id) > config.HeartbeatTTL
                        /\ instances[id].Status = StatusHealthy
                     THEN instances'[id] = [instances[id] EXCEPT !.Status = StatusUnhealthy]
                     ELSE instances'[id] = instances[id]
       /\ DOMAIN instances' \subseteq DOMAIN instances
       /\ DOMAIN services' \subseteq Buckets
       /\ DOMAIN routes' \subseteq DOMAIN routes
       /\ \A s \in Buckets :
             LET stays(id) == ~ Expired(id)
                 rest == SelectSeq(services[s], stays)
             IN  IF rest = << >>
                 THEN /\ s \notin DOMAIN services'
                      /\ \A key \in DOMAIN routes' : routes'[key].ServiceName # s
                 ELSE /\ s \in DOMAIN services'
                      /\ services'[s] = rest
                      /\ \A key \in DOMAIN routes :
                            routes[key].ServiceName = s =>
                               key \in DOMAIN routes' /\ routes'[key] = routes[key]

\* C5: a cleanup scan removes, as Deregister would, every instance whose
\* last heartbeat is more than 2*HeartbeatTTL old, marks unhealthy every
\* other healthy instance whose last heartbeat is more than HeartbeatTTL old
\* and leaves the rest unchanged; at exactly HeartbeatTTL a healthy instance
\* stays healthy and at exactly 2*HeartbeatTTL an instance is not removed.
C5_CleanupRules == [][UNCHANGED vars \/ C5_Step]_vars

\* the scan has removed one instance and has marked, at exactly
\* 2*HeartbeatTTL, one that it did not remove
C5_Witness ==
    /\ removed # {}
    /\ \E id \in DOMAIN instances :
          /\ instances[id].Status = StatusUnhealthy
          /\ Elapsed(id) = 2 * config.HeartbeatTTL

C6_Step ==
    /\ \A id \in DOMAIN instances :
          Heartbeat(id) =>
             /\ DOMAIN instances' = DOMAIN instances
             /\ instances'[id] = [instances[id] EXCEPT !.LastHeartbeat = now]
             /\ instances'[id].Status = instances[id].Status
             /\ \A other \in DOMAIN instances \ {id} : instances'[other] = instances[other]
             /\ UNCHANGED <<services, routes>>
    /\ \A id \in (DOMAIN instances) \cap (DOMAIN instances') :
          instances'[id].Status # instances[id].Status => cleanup

\* C6: Heartbeat on an existing instance sets its last_heartbeat to now and
\* changes nothing else: not its status, no other instance, not services,
\* not routes; a status changes only in a cleanup scan.
C6_HeartbeatOnlyTouchesLastHeartbeat == [][UNCHANGED vars \/ C6_Step]_vars

\* an instance the scan had marked unhealthy has just sent a heartbeat
C6_Witness ==
    \E id \in DOMAIN instances :
        /\ instances[id].Status = StatusUnhealthy
        /\ instances[id].LastHeartbeat = now
        /\ instances[id].RegisteredAt < now

\* the ids GetHealthyInstances returns for a service
HealthyIDs(serviceName) ==
    { GetHealthyInstances(serviceName)[i].ID :
        i \in 1..Len(GetHealthyInstances(serviceName)) }

C7_Step ==
    \A id \in DOMAIN instances :
        Heartbeat(id) /\ instances[id].Status = StatusUnhealthy =>
            /\ instances'[id].Status = StatusHealthy
            /\ id \in HealthyIDs(instances[id].ServiceName)'

\* C7: an instance that the scan has marked unhealthy and that sends a
\* heartbeat before it is evicted is healthy again and is returned by
\* GetHealthyInstances.
C7_HeartbeatRestoresHealth == [][UNCHANGED vars \/ C7_Step]_vars

C8_Step ==
    \A id \in DOMAIN instances :
        Deregister(id) =>
           LET s == instances[id].ServiceName
               other(x) == x # id
               rest == SelectSeq(services[s], other)
           IN  /\ DOMAIN instances' = (DOMAIN instances) \ {id}
               /\ \A x \in DOMAIN instances' : instances'[x] = instances[x]
               /\ \A t \in Buckets \ {s} : t \in DOMAIN services' /\ services'[t] = services[t]
               /\ \A key \in DOMAIN routes :
                     routes[key].ServiceName # s =>
                        key \in DOMAIN routes' /\ routes'[key] = routes[key]
               /\ DOMAIN routes' \subseteq DOMAIN routes
               /\ DOMAIN services' \subseteq Buckets
               /\ IF rest # << >>
                  THEN /\ s \in DOMAIN services'
                       /\ services'[s] = rest
                       /\ routes' = routes
                  ELSE /\ s \notin DOMAIN services'
                       /\ \A key \in DOMAIN routes' : routes'[key].ServiceName # s

\* C8: Deregister of an existing instance of service s removes that
\* instance and its id from services[s] and keeps the order of the other
\* ids; routes is unchanged while s has other instances, and with the last
\* instance the routes of s and the bucket of s go; the instances and the
\* routes of every other service are untouched.
C8_DeregisterFrame == [][UNCHANGED vars \/ C8_Step]_vars

\* the first of three instances of one service has been deregistered
C8_Witness ==
    /\ 1 \in removed
    /\ \E s \in Buckets : services[s] = << 2, 3 >>

C9_Step ==
    /\ \A id \in IDs \ DOMAIN instances :
          /\ HeartbeatError(id) = ErrInstanceNotFound
          /\ DeregisterError(id) = ErrInstanceNotFound
          /\ Heartbeat(id) \/ Deregister(id) => UNCHANGED <<instances, services, routes>>
    /\ \A id \in removed :
          /\ id \in removed'
          /\ id \notin DOMAIN instances'
          /\ \A s \in DOMAIN services' : \A i \in 1..Len(services'[s]) : services'[s][i] # id

\* C9: Heartbeat and Deregister on an id that is not in instances return
\* InstanceNotFound and change nothing; an instance that was deregistered or
\* evicted never comes back, so no later call on its id succeeds.
C9_UnknownInstanceStaysUnknown == [][UNCHANGED vars \/ C9_Step]_vars

\* an instance has been removed while another one is registered
C9_Witness == removed # {} /\ DOMAIN instances # {}

KeyOf(req, i) == req.Routes[i].Method \o ":" \o req.BasePath \o req.Routes[i].Path

C10_Step ==
    \A call \in calls :
        RegisterCommit(call) =>
           LET req == call.req
               id == call.instanceID
               s == req.ServiceName
               declared == { KeyOf(req, i) : i \in 1..Len(req.Routes) }
           IN  /\ id \notin DOMAIN instances
               /\ id \notin removed
               /\ DOMAIN instances' = (DOMAIN instances) \cup {id}
               /\ \A x \in DOMAIN instances : instances'[x] = instances[x]
               /\ instances'[id].ServiceName = s
               /\ instances'[id].Status = StatusHealthy
               /\ instances'[id].Weight = 1
               /\ instances'[id].RegisteredAt = call.now
               /\ instances'[id].LastHeartbeat = call.now
               /\ call.now <= now
               /\ DOMAIN services' = Buckets \cup {s}
               /\ services'[s] = (IF s \in Buckets THEN services[s] ELSE << >>) \o << id >>
               /\ \A t \in Buckets \ {s} : services'[t] = services[t]
               /\ DOMAIN routes' = (DOMAIN routes) \cup declared
               /\ \A i \in 1..Len(req.Routes) :
                     /\ routes'[KeyOf(req, i)].ServiceName = s
                     /\ routes'[KeyOf(req, i)].BasePath = req.BasePath
                     /\ routes'[KeyOf(req, i)].Route.Method = req.Routes[i].Method
                     /\ routes'[KeyOf(req, i)].Route.Path = req.Routes[i].Path
               /\ \A key \in (DOMAIN routes) \ declared : routes'[key] = routes[key]
               /\ (/\ declared \cap DOMAIN routes = {}
                   /\ Cardinality(declared) = Len(req.Routes))
                     => Cardinality(DOMAIN routes') = Cardinality(DOMAIN routes) + Len(req.Routes)

\* C10: a Register that passes its checks adds one instance under an id
\* never used before, healthy, of weight 1, with registered_at =
\* last_heartbeat = the time the call read, appends the id to the bucket of
\* its service and installs for each declared route an entry of that service
\* under method:base_path+path; when the declared keys are new and distinct
\* the number of entries grows by the number of declared routes.
C10_RegisterInstalls == [][UNCHANGED vars \/ C10_Step]_vars

\* two services have registered one and two routes: three entries
C10_Witness ==
    /\ Cardinality(Buckets) = 2
    /\ Cardinality(DOMAIN routes) = 3
    /\ \A id \in DOMAIN instances :
          /\ instances[id].Status = StatusHealthy
          /\ instances[id].LastHeartbeat = instances[id].RegisteredAt

\* C11: what a read operation shows of the registry is the registry
\* entirely before or entirely after each write operation: the instances a
\* ListServices response has written so far are, field by field, the
\* instances of one state the registry was in since GetAllServices ran,
\* never those of a cleanup scan that is half applied.
C11_ReadsSeeNoTornState ==
    reader.active =>
        \E view \in reader.views :
            \A i \in 1..Len(reader.out) : reader.out[i] = view[reader.out[i].ID]

\* the requests of service a and of service b that C12 pairs
RequestsOfA == { req \in ValidRequests : req.ServiceName = "a" } \cup { GoodRequest }

RequestsOfB ==
    { req \in ValidRequests : req.ServiceName = "b" }
        \cup { [GoodRequest EXCEPT !.ServiceName = "b",
                                   !.Routes = << Route("GET", "/orders/{id}") >>] }

\* two requests declare the same key, or with strict matching two routes
\* of one method whose normalised paths overlap
Collide(ra, rb) ==
    \E i \in 1..Len(ra.Routes), j \in 1..Len(rb.Routes) :
        /\ ra.Routes[i].Method = rb.Routes[j].Method
        /\ \/ FullPath(ra.Routes[i], ra.BasePath) = FullPath(rb.Routes[j], rb.BasePath)
           \/ /\ config.StrictPatternMatching
              /\ pathsOverlap(normalizePath(FullPath(ra.Routes[i], ra.BasePath)),
                              normalizePath(FullPath(rb.Routes[j], rb.BasePath)))

\* an instance without its id and its timestamps
Stripped(instance) ==
    [ServiceName |-> instance.ServiceName, Host |-> instance.Host, Port |-> instance.Port,
     HealthURL |-> instance.HealthURL, Status |-> instance.Status, Weight |-> instance.Weight]

\* the three maps up to the instance ids and the timestamps
Opaque(reg) ==
    [services |-> [s \in DOMAIN reg.services |->
                     [i \in 1..Len(reg.services[s]) |->
                         Stripped(reg.instances[reg.services[s][i]])]],
     routes   |-> [key \in DOMAIN reg.routes |->
                     [ServiceName |-> reg.routes[key].ServiceName,
                      BasePath    |-> reg.routes[key].BasePath,
                      Route       |-> reg.routes[key].Route]],
     count    |-> Cardinality(DOMAIN reg.instances)]

C12_Commute ==
    /\ \A req \in RegisterRequests : Passes(Reg, req) <=> ~ RegisterFails(req)
    /\ \A ra \in RequestsOfA, rb \in RequestsOfB :
        (Passes(Reg, ra) /\ Passes(Reg, rb) /\ ~ Collide(ra, rb)) =>
            LET first == nextID + 1
                second == nextID + 2
                afterA == Committed(Reg, CallOf(ra, first))
                afterB == Committed(Reg, CallOf(rb, first))
                serialAB == Committed(afterA, CallOf(rb, second))
                serialBA == Committed(afterB, CallOf(ra, second))
                overtaken == Committed(Committed(Reg, CallOf(rb, second)), CallOf(ra, first))
            IN  /\ Passes(afterA, rb)
                /\ Passes(afterB, ra)
                /\ Opaque(serialAB) = Opaque(serialBA)
                /\ Opaque(overtaken) = Opaque(serialAB)
                /\ Opaque(serialAB).count = Cardinality(DOMAIN instances) + 2

C12_Step ==
    \A call \in calls :
        RegisterCommit(call) =>
           [instances |-> instances', services |-> services', routes |-> routes']
               = Committed(Reg, call)

\* C12: two Register calls by different services whose routes do not
\* collide commute: each passes its checks after the other has committed,
\* and the serial orders a;b and b;a and the concurrent run in which the
\* later call commits first leave the same instances, per-service id
\* sequences and routes, up to the instance ids and the timestamps.
C12_RegistersCommute == [] C12_Commute /\ [][UNCHANGED vars \/ C12_Step]_vars

\* b validated after a and committed before it, while the call of a,
\* which does not collide, still waits for the lock
C12_Witness ==
    /\ ~ config.StrictPatternMatching
    /\ \E ca \in calls :
          /\ ca.req.ServiceName = "a"
          /\ \E id \in DOMAIN instances :
                /\ instances[id].ServiceName = "b"
                /\ id > ca.instanceID
                /\ \E rb \in RequestsOfB :
                      /\ ~ Collide(ca.req, rb)
                      /\ \A i \in 1..Len(rb.Routes) : Key(rb.Routes[i], rb.BasePath) \in DOMAIN routes

\* the preconditions of the round trip of C16: a minted token, validated
\* for the audience it was minted for before it expires
RoundTrip ==
    /\ verdict.called
    /\ verdict.entry.minted
    /\ verdict.entry.ext.Subject # ""
    /\ verdict.entry.aud # ""
    /\ verdict.expected = verdict.entry.aud
    /\ Unix(verdict.at) <= verdict.entry.token.exp

RoundTripYields ==
    /\ verdict.err = ""
    /\ verdict.claims.Subject = verdict.entry.ext.Subject
    /\ verdict.claims.OriginalIssuer = verdict.entry.ext.Issuer
    /\ verdict.claims.Trace = << broker.issuer >>
    /\ verdict.claims.Audience = verdict.entry.aud

Allowed == { broker.allowedIssuers[i] : i \in 1..Len(broker.allowedIssuers) }

\* the token of the last verdict is signed for the broker's public key with
\* RS256, is not expired and carries a subject, an issuer and an audience
Sound ==
    LET token == verdict.entry.token
    IN  /\ broker.publicKey # ""
        /\ token.alg = "RS256"
        /\ token.key = broker.publicKey
        /\ token.exp = 0 \/ Unix(verdict.at) <= token.exp
        /\ token.sub # ""
        /\ token.iss # ""
        /\ token.aud # ""

HealthyOf(serviceName) ==
    { id \in DOMAIN instances :
        /\ instances[id].ServiceName = serviceName
        /\ instances[id].Status = StatusHealthy }

\* the request carries a token the broker takes as an external token
Credentialed(auth) ==
    /\ auth.text = "Bearer "
    /\ ValidateExternalToken(broker, auth.token, now).err = ""

\* the scopes a sequence holds
Held(scopes) == { scopes[i] : i \in 1..Len(scopes) }

\* what the steps of Handle do to one request: the step up to the gate
\* answers 404 where no route matches and 401 or 403 where the gate turns
\* the caller down, and sends nothing upstream; the step after it answers
\* 503 where the service has no healthy instance, and otherwise sends the
\* request to a healthy instance of the matched service
C13_Step ==
    /\ proxy.stage = "idle" =>
          \A path \in Paths :
              LET matches == MatchRoute(routes, "GET", path)
              IN  (\E match \in matches : \E auth \in Headers : proxy' = Gated(match, auth))
                  => /\ proxy'.upstream = 0
                     /\ counter' = counter
                     /\ matches = { NoMatch } => proxy' = [Idle EXCEPT !.status = 404]
                     /\ proxy'.stage = "idle" => proxy'.status \in { 404, 401, 403, 500 }
                     /\ proxy'.status \in { 401, 403, 500 } =>
                           authConfigured /\ matches # { NoMatch }
                     /\ proxy'.status = 500 => broker.privateKey = ""
                     /\ proxy'.stage = "allowed" =>
                           \E match \in matches :
                               /\ match.found
                               /\ proxy'.entry = routes[match.key]
                               /\ authConfigured /\ ~ Public(proxy'.entry.Route)
                                     => \E auth \in Headers :
                                           /\ Credentialed(auth)
                                           /\ Held(Scopes(proxy'.entry.Route))
                                                 \subseteq Held(auth.token.scopes)
    /\ proxy.stage = "allowed" =>
          LET serviceName == proxy.entry.ServiceName
          IN  IF HealthyOf(serviceName) = {}
              THEN /\ proxy' = [Idle EXCEPT !.status = 503]
                   /\ counter' = counter
              ELSE /\ proxy'.upstream \in HealthyOf(serviceName)
                   /\ proxy'.status \in { 200, 502 }
                   /\ counter' = counter + 1
    /\ proxy'.upstream # 0 => proxy.stage = "allowed"

\* C13: a proxied request is decided in the order match, auth gate,
\* healthy-instance lookup, select: no matching route is answered 404, a
\* denial of the gate 401 or 403, a service without healthy instance 503,
\* each without a request upstream; a request goes only to an instance of
\* the matched entry's service that is healthy when GetHealthyInstances is
\* asked for that request.
C13_DecisionOrder ==
    [] (proxy.upstream # 0 => proxy.status \in { 200, 502 })
    /\ [][UNCHANGED proxy \/ C13_Step]_vars

\* the second of two healthy instances of one service got the second
\* request, which passed the gate
C13_Witness ==
    /\ authConfigured
    /\ proxy.status = 200
    /\ proxy.upstream = 2
    /\ counter = 2
    /\ HealthyOf("a") = { 1, 2 }

\* the outcome the gate has for a request
Outcome(request) == [stage |-> request.stage, status |-> request.status]

\* the gate's decisions in their order; mintable says whether the last one,
\* for a token in order, depends on the broker's private key
Decision(entry, auth, mintable) ==
    LET checked == ValidateExternalToken(broker, auth.token, now)
        answered(status) == [stage |-> "idle", status |-> status]
    IN  IF Public(entry.Route) THEN [stage |-> "allowed", status |-> 0]
        ELSE IF auth.text # "Bearer " THEN answered(401)
        ELSE IF checked.err # "" THEN answered(401)
        ELSE IF /\ Scopes(entry.Route) # << >>
                /\ ~ (Held(Scopes(entry.Route)) \subseteq Held(checked.claims.Scopes))
             THEN answered(403)
        ELSE IF mintable /\ broker.privateKey = "" THEN answered(500)
        ELSE [stage |-> "allowed", status |-> 0]

\* a step of the gate decides as Decision says, and leaves the headers of a
\* request on a public route alone
Decides(mintable) ==
    proxy.stage = "idle" /\ authConfigured =>
        \A path \in Paths : \A match \in MatchRoute(routes, "GET", path) :
            match.found =>
                \A auth \in Headers :
                    proxy' = Gated(match, auth)
                        => /\ Outcome(proxy') = Decision(routes[match.key], auth, mintable)
                           /\ Public(routes[match.key].Route)
                                 => proxy'.auth = auth /\ proxy'.issuer = ""

\* the gate as the claim has it: a token in order with the scopes of the
\* route is allowed, whatever keys the broker holds
C14_Original == [][UNCHANGED proxy \/ Decides(FALSE)]_vars

\* C14: the gate decides in this order: a public route is allowed with no
\* header changes whatever the Authorization header carries; otherwise a
\* missing header or one without the exact prefix 'Bearer ' gives 401; a
\* token rejected by ValidateExternalToken gives 401; a valid token whose
\* scopes do not include every scope of a non-empty route.scopes gives 403;
\* otherwise the request is allowed where the broker holds a private key
\* and answered 500 where it holds none.  A request on a non-public route
\* is never allowed without a valid external token holding all required
\* scopes.
C14_GateOrder ==
    [] (proxy.stage = "allowed" /\ authConfigured /\ ~ Public(proxy.entry.Route)
           => /\ proxy.auth.token.key = broker.privateKey
              /\ Held(Scopes(proxy.entry.Route)) \subseteq Held(proxy.auth.token.scopes))
    /\ [][UNCHANGED proxy \/ Decides(TRUE)]_vars

\* a request for a route that asks for two scopes was allowed with a token
\* that holds both
C14_Witness ==
    /\ authConfigured
    /\ proxy.stage = "allowed"
    /\ Scopes(proxy.entry.Route) = << "read", "write" >>
    /\ proxy.auth.token.scopes = << "write", "read" >>
    /\ broker.privateKey # ""

\* an allowed request on a non-public route carries the internal token for
\* the external one it came with
C15_Step ==
    proxy.stage = "idle" /\ proxy'.stage = "allowed" /\ authConfigured =>
        \A path \in Paths : \A match \in MatchRoute(routes, "GET", path) :
            match.found /\ ~ Public(routes[match.key].Route) =>
                \A auth \in Headers :
                    proxy' = Gated(match, auth)
                        => LET token == proxy'.auth.token
                           IN  /\ proxy'.auth.text = "Bearer "
                               /\ token # auth.token
                               /\ token.key = broker.privateKey
                               /\ token.key # auth.token.key
                               /\ token.aud = routes[match.key].ServiceName
                               /\ token.iss = broker.issuer
                               /\ token.sub = auth.token.sub
                               /\ token.email = auth.token.email
                               /\ token.scopes = auth.token.scopes
                               /\ proxy'.issuer = auth.token.iss

\* C15: when the gate allows a request on a non-public route, the request
\* that goes upstream no longer carries the external token: Authorization
\* is 'Bearer <internal token>', the internal token has aud = the matched
\* service name, iss = the gateway issuer and sub, email and scopes of the
\* external token, and X-Original-Issuer is the external token's issuer.
C15_InternalTokenForwarded ==
    [] (proxy.stage = "allowed" /\ authConfigured /\ ~ Public(proxy.entry.Route)
           => /\ proxy.auth.text = "Bearer "
              /\ proxy.auth.token.aud = proxy.entry.ServiceName
              /\ proxy.auth.token.iss = broker.issuer
              /\ proxy.issuer # "")
    /\ [][UNCHANGED proxy \/ C15_Step]_vars

\* a request with a token of the auth service was allowed for service b
C15_Witness ==
    /\ proxy.stage = "allowed"
    /\ proxy.entry.ServiceName = "b"
    /\ proxy.auth.token.aud = "b"
    /\ proxy.auth.token.sub = "user-123"
    /\ proxy.issuer = "auth-service"

(***************************************************************************)
(* Properties of the rate limiters and the rate-limit gate.                *)
(***************************************************************************)
\* how many admitted calls of the key have their time in the set
AdmittedIn(key, times) ==
    Cardinality({ i \in 1..Len(limiter.admitted) :
                    limiter.admitted[i].key = key /\ limiter.admitted[i].at \in times })

\* how many timestamps under the key have their time in the set
RecordedIn(key, times) ==
    LET held == Lookup(limiter.requests, key)
    IN  Cardinality({ i \in 1..Len(held) : held[i] \in times })

\* C18: for the in-memory limiter, any key and any fixed limit L >= 1, in a
\* serial sequence of Allow(key, L) calls the first L calls within a window
\* are allowed and the (L+1)-th is denied: no more than L allowed calls of
\* one key fall within any rolling window, from a time t to t + window, and
\* a call is denied only when L allowed calls of its key lie in the window
\* that ends with it.
C18_AtMostLimitPerWindow ==
    ~ limiter.redis =>
        /\ \A identity \in Identities : \A t \in 0..MaxTime :
              AdmittedIn(identity.key, t..(t + Window)) <= identity.limit
        /\ \A identity \in Identities :
              (/\ limiter.last.key = identity.key
               /\ limiter.last.at = now
               /\ ~ limiter.last.failed
               /\ ~ limiter.last.result.Allowed)
                  => AdmittedIn(identity.key, (now - Window)..now) >= identity.limit

\* C19: concurrent Allow calls on one in-memory limiter end as some serial
\* order of them would: the process goes on, no more than limit calls of a
\* key are admitted within the window the limiter keeps, the timestamps
\* later than now - window, and once no call is inside Allow the map holds
\* the timestamp of every call admitted within that window.
C19_ConcurrentAllowIsSerial ==
    /\ ~ limiter.fatal
    /\ \A identity \in Identities :
          /\ AdmittedIn(identity.key, (now - Window + 1)..now) <= identity.limit
          /\ limiter.inside = {} =>
                \A t \in (now - Window + 1)..now :
                    RecordedIn(identity.key, { t }) = AdmittedIn(identity.key, { t })

\* the headers of an answer that come from the result of Allow
Limited(answer) ==
    /\ DOMAIN answer.headers =
          { "X-RateLimit-Limit", "X-RateLimit-Remaining", "X-RateLimit-Reset" }
    /\ answer.headers["X-RateLimit-Limit"] = Itoa(answer.result.Limit)
    /\ answer.headers["X-RateLimit-Remaining"] = Itoa(answer.result.Remaining)
    /\ answer.headers["X-RateLimit-Reset"] = Itoa(Unix(answer.at + Window))

\* the gate's answer to a request the limiter decided
Decided(answer) ==
    /\ Limited(answer)
    /\ answer.handled <=> answer.result.Allowed
    /\ ~ answer.result.Allowed =>
          answer.status = 429 /\ answer.error = "rate_limit_exceeded"
    /\ answer.result.Allowed => answer.status = 0 /\ answer.error = ""

\* every request through the gate is answered as one the limiter decided
C20_Original == limiter.last.gate => Decided(limiter.last)

\* C20: every request through the rate-limit gate for which Allow returns a
\* result gets the headers X-RateLimit-Limit, X-RateLimit-Remaining and
\* X-RateLimit-Reset on its response, whether it is allowed or denied; its
\* handler runs if and only if the limiter allowed it, and a denied request
\* is answered 429 with error rate_limit_exceeded.  A request for which
\* Allow returns an error goes on to its handler without these headers.
C20_GateAnswers ==
    limiter.last.gate =>
        IF limiter.last.failed
        THEN /\ limiter.last.handled
             /\ limiter.last.headers = EmptyMap
             /\ limiter.last.status = 0
        ELSE Decided(limiter.last)

\* the gate denied a request of a user after it admitted as many as the
\* limit of users allows
C20_Witness ==
    /\ limiter.last.gate
    /\ ~ limiter.last.failed
    /\ limiter.last.key = "ratelimit:user:u1"
    /\ limiter.last.status = 429
    /\ ~ limiter.last.handled
    /\ limiter.last.headers["X-RateLimit-Limit"] = "2"
    /\ limiter.last.headers["X-RateLimit-Remaining"] = "0"

(***************************************************************************)
(* Properties of the HTTP server.                                          *)
(***************************************************************************)
\* C21: a request to a registry mutation endpoint (register, heartbeat,
\* deregister) does not pass through the rate-limit gate: it is never counted
\* by the limiter and never answered 429.  It reaches the Registry only with
\* a service token that the Token Broker accepted; any other request is
\* answered 401 and the Registry is not called.
C21_EndpointsBypassGate ==
    server.last.endpoint # "" =>
        /\ ~ server.last.counted
        /\ server.last.status # 429
        /\ server.last.reached => server.last.identity # ""
        /\ server.last.identity = "" => server.last.status = 401 /\ ~ server.last.reached

\* C22: a register request whose authenticated service identity (the sub of
\* its service token) differs from the service_name of its body is answered
\* 403 and the Registry is not called; when the two are equal the
\* registration proceeds to the Registry.
C22_AntiImpersonation ==
    (server.last.endpoint = "register" /\ server.last.identity # ""
                                       /\ server.last.name # "") =>
        IF server.last.identity # server.last.name
        THEN server.last.status = 403 /\ ~ server.last.reached
        ELSE server.last.reached

(***************************************************************************)
(* Properties of the round-robin balancer.                                 *)
(***************************************************************************)
\* the calls of Select that have added to the counter or returned
Selected ==
    balancer.inside \cup { balancer.returned[i] : i \in 1..Len(balancer.returned) }

\* C23: Select on a non-empty sequence of n instances returns
\* instances[c mod n], c the value of the counter before the call, and
\* advances the counter by exactly one, so calls made one after the other
\* cycle through the instances in order; Select on an empty sequence returns
\* nil.
C23_SelectRoundRobin ==
    LET n == Len(balancer.instances)
    IN  IF n = 0
        THEN /\ counter = 0
             /\ \A call \in Selected : call.instance = 0
        ELSE /\ counter = Selects
             /\ \A call \in Selected :
                   /\ call.instance = balancer.instances[(call.before % n) + 1]
                   /\ call.n = call.before + 1
             /\ ~ balancer.overlapped =>
                   \A i \in 1..Len(balancer.returned) :
                      balancer.returned[i].instance = balancer.instances[((i - 1) % n) + 1]

\* four calls one after the other on three instances: the fourth call
\* returns the first instance again
C23_Witness ==
    /\ balancer.instances = << 1, 2, 3 >>
    /\ ~ balancer.overlapped
    /\ Len(balancer.returned) = 4
    /\ balancer.returned[3].instance = 3
    /\ balancer.returned[4].instance = 1
    /\ counter = 4

\* how often the calls so far selected the instance id
Selections(id) ==
    Cardinality({ i \in 1..Len(balancer.returned) : balancer.returned[i].instance = id })
    + Cardinality({ call \in balancer.inside : call.instance = id })

\* C24: under any interleaving of concurrent calls of Select on the same
\* sequence of N instances, no two calls obtain the same value of the
\* counter and no value is skipped, and the numbers of times two instances
\* were selected differ by one at most: after N*K calls every instance was
\* selected K times.
C24_ConcurrentSelectIsFair ==
    LET n == Len(balancer.instances)
    IN  n > 0 =>
          /\ \A i, j \in 1..Len(balancer.returned) :
                i # j => balancer.returned[i].n # balancer.returned[j].n
          /\ \A i \in 1..Len(balancer.returned), call \in balancer.inside :
                balancer.returned[i].n # call.n
          /\ { call.n : call \in Selected } = 1..Selects
          /\ \A i, j \in 1..n :
                Selections(balancer.instances[i]) - Selections(balancer.instances[j]) <= 1
          /\ \A k \in 1..MaxSelects :
                Selects = n * k => \A i \in 1..n : Selections(balancer.instances[i]) = k

\* six calls on three instances, two of them inside Select at the same time
\* and returning in the other order: every instance was selected twice
C24_Witness ==
    /\ balancer.instances = << 1, 2, 3 >>
    /\ balancer.overlapped
    /\ balancer.inside = {}
    /\ Len(balancer.returned) = 6
    /\ \E i \in 1..5 : balancer.returned[i].n > balancer.returned[i + 1].n
    /\ \A id \in 1..3 : Selections(id) = 2

(***************************************************************************)
(* Properties of the route matcher.                                        *)
(***************************************************************************)
\* C25: when the exact key method:path is installed, MatchRoute returns that
\* entry with empty params, also when parametric patterns match the path.
C25_ExactMatchFirst ==
    LET exactKey == matcher.method \o ":" \o matcher.path
    IN  (matcher.called /\ exactKey \in DOMAIN routes) =>
            /\ matcher.result.found
            /\ matcher.result.key = exactKey
            /\ matcher.result.params = EmptyMap

\* GET /api/users/me is matched while /api/users/me, /api/users/:id and
\* /api/:kind/:id are installed for GET
C25_Witness ==
    /\ matcher.called
    /\ matcher.method = "GET"
    /\ matcher.path = "/api/users/me"
    /\ { "GET:/api/users/me", "GET:/api/users/:id", "GET:/api/:kind/:id" } \subseteq DOMAIN routes
    /\ matcher.result.key = "GET:/api/users/me"
    /\ matcher.result.params = EmptyMap

\* the segments of a path between its slashes, the slashes at its ends left out
Segments(path) == Split(Trim(path, "/"), "/")

\* a segment of a pattern against a segment of a path: :name matches any
\* segment, a literal its equal
SegmentMatches(patternSeg, pathSeg) == HasPrefix(patternSeg, ":") \/ patternSeg = pathSeg

\* a pattern matches a path segment by segment
MatchesBySegments(pattern, path) ==
    /\ Len(Segments(pattern)) = Len(Segments(path))
    /\ \A i \in 1..Len(Segments(pattern)) :
          SegmentMatches(Segments(pattern)[i], Segments(path)[i])

\* the positions of the segments * of a pattern
Stars(pattern) == { i \in 1..Len(Segments(pattern)) : Segments(pattern)[i] = "*" }

\* a pattern with a segment * matches a path: the segments in front of the
\* first * match one by one and * takes the rest
MatchesByWildcard(pattern, path) ==
    LET patternSegments == Segments(pattern)
        pathSegments == Segments(path)
        star == CHOOSE i \in Stars(pattern) : \A j \in Stars(pattern) : i <= j
    IN  /\ Stars(pattern) # {}
        /\ \/ Len(patternSegments) = Len(pathSegments)
           \/ /\ patternSegments[Len(patternSegments)] = "*"
              /\ Len(pathSegments) >= Len(patternSegments) - 1
        /\ \A i \in 1..(star - 1) : SegmentMatches(patternSegments[i], pathSegments[i])

\* the installed keys of the method whose path is the path or matches it (how
\* says what matching as a pattern is)
MatchingKeys(method, path, how(_, _)) ==
    { key \in DOMAIN routes :
        /\ routes[key].Route.Method = method
        /\ \/ FullPath(routes[key].Route, routes[key].BasePath) = path
           \/ how(FullPath(routes[key].Route, routes[key].BasePath), path) }

\* the params a pattern binds on a path: every :name in front of the first *
\* to its segment, * to the rest of the path
Bound(pattern, path) ==
    LET patternSegments == Segments(pattern)
        pathSegments == Segments(path)
        upTo == IF Stars(pattern) = {} THEN Len(patternSegments)
                ELSE (CHOOSE i \in Stars(pattern) : \A j \in Stars(pattern) : i <= j) - 1
        names == { i \in 1..upTo : HasPrefix(patternSegments[i], ":") }
    IN  [name \in { SubSeq(patternSegments[i], 2, Len(patternSegments[i])) : i \in names }
                  \cup (IF Stars(pattern) = {} THEN {} ELSE { "*" }) |->
            IF name = "*" /\ Stars(pattern) # {}
            THEN Join(SubSeq(pathSegments, upTo + 1, Len(pathSegments)), "/")
            ELSE pathSegments[CHOOSE i \in names :
                                 SubSeq(patternSegments[i], 2, Len(patternSegments[i])) = name]]

\* MatchRoute answers as the matching keys say
Answers(matching) ==
    /\ matcher.result.found <=> matching # {}
    /\ matcher.result.found =>
          /\ matcher.result.key \in matching
          /\ \/ matcher.result.key = matcher.method \o ":" \o matcher.path
                   /\ matcher.result.params = EmptyMap
             \/ matcher.result.params =
                   Bound(FullPath(routes[matcher.result.key].Route,
                                  routes[matcher.result.key].BasePath), matcher.path)

\* MatchRoute returns an entry if and only if an installed entry of the
\* method has the path as its full path or matches it with the same number
\* of segments
C26_Original ==
    matcher.called => Answers(MatchingKeys(matcher.method, matcher.path, MatchesBySegments))

\* C26: MatchRoute returns an entry if and only if some installed entry has
\* the method of the request and a full path that equals the path, or
\* matches it segment by segment (same number of segments, :name matches any
\* one segment, literals are equal), or has a segment * in front of which the
\* segments match, where the path has as many segments as the pattern or the
\* pattern ends in * and the path has at most one segment fewer.  The entry
\* returned is one of these entries with its params bound, * to the rest of
\* the path; otherwise MatchRoute returns nil.
C26_MatchIffSomeEntryMatches ==
    LET how(pattern, path) == MatchesBySegments(pattern, path) \/ MatchesByWildcard(pattern, path)
    IN  matcher.called => Answers(MatchingKeys(matcher.method, matcher.path, how))

\* GET /api/users/7 is matched by a parametric entry with id bound, while
\* another parametric entry matches too
C26_Witness ==
    /\ matcher.called
    /\ matcher.method = "GET"
    /\ matcher.path = "/api/users/7"
    /\ { "GET:/api/users/:id", "GET:/api/:kind/:id" } \subseteq DOMAIN routes
    /\ matcher.result.key = "GET:/api/users/:id"
    /\ matcher.result.params = Put(EmptyMap, "id", "7")

(***************************************************************************)
(* Properties of the shutdown.                                             *)
(***************************************************************************)
\* C27: Shutdown is ordered.  Registry.Stop signals the cleanup loop, and the
\* goroutine of the loop has terminated before the cache client is closed;
\* the cache client is closed before the HTTP server is stopped.
C27_ShutdownOrdered ==
    /\ server.redisClient = "closed" => server.stopCh /\ server.loop = "returned"
    /\ server.httpServer = "shut down" =>
          /\ server.stopCh /\ server.loop = "returned"
          /\ server.redisClient # "open"

(***************************************************************************)
(* Properties of the trace.                                                *)
(***************************************************************************)
\* C28: the token GenerateServiceToken makes from internal claims has the
\* trace of the claims followed by the issuer of the gateway; a token that
\* was minted again k times after its first minting has a trace of length
\* 1 + k.
C28_TraceGrowsByIssuer ==
    /\ (verdict.called /\ verdict.expected # "" /\ verdict.err = "") =>
          /\ Len(verdict.entry) = Len(verdict.claims.Trace) + 1
          /\ SubSeq(verdict.entry, 1, Len(verdict.claims.Trace)) = verdict.claims.Trace
          /\ verdict.entry[Len(verdict.entry)] = broker.issuer
    /\ \A held \in tokens : Len(held.token.trace) = 1 + held.reminted

\* a token that was minted again twice: its trace names the gateway three
\* times
C28_Witness ==
    /\ verdict.called /\ verdict.err = ""
    /\ verdict.claims.Trace = << "api-api", "api-api" >>
    /\ \E held \in tokens :
          /\ held.reminted = 2
          /\ held.token.trace = << "api-api", "api-api", "api-api" >>
          /\ held.token.trace = verdict.entry

(***************************************************************************)
(* Properties of the validation of external tokens.                        *)
(***************************************************************************)
\* C29: ValidateExternalToken accepts tokens signed with RS256 only: a token
\* of any other algorithm (RS384, RS512, HS256, none) is rejected as
\* TokenMalformed, also when its signature verifies under the public key.
C29_OnlyRS256 ==
    (verdict.called /\ broker.publicKey # "" /\ verdict.entry.alg # "RS256") =>
        verdict.err = ErrTokenMalformed

(***************************************************************************)
(* Properties of the Director.                                             *)
(***************************************************************************)
\* C30: the X-Forwarded-Proto sent upstream is https whenever the incoming
\* connection is TLS, whatever X-Forwarded-Proto the request carries;
\* otherwise it is the incoming X-Forwarded-Proto if there is one, and
\* otherwise http.
C30_ForwardedProto ==
    director.called =>
        Get(director.upstream, "X-Forwarded-Proto") =
            IF director.tls THEN "https"
            ELSE IF Get(director.incoming, "X-Forwarded-Proto") # ""
                 THEN Get(director.incoming, "X-Forwarded-Proto")
            ELSE "http"

(***************************************************************************)
(* Properties of the request context.                                      *)
(***************************************************************************)
\* C31: after the auth gate has allowed a request on a route that is not
\* public, the context of the request holds user_id, the subject of the
\* external token, and user_email, its email.
C31_ContextHoldsUser ==
    (/\ proxy.stage = "allowed"
     /\ authConfigured
     /\ ~ Public(proxy.entry.Route)) =>
        /\ Get(proxy.context, "user_id") = proxy.auth.token.sub
        /\ Get(proxy.context, "user_email") = proxy.auth.token.email

(***************************************************************************)
(* Properties of concurrent registration.                                  *)
(***************************************************************************)
\* C32: under every interleaving of Register calls of two services that
\* declare the same method and full path, at most one of them succeeds: no
\* two services that have an instance were both handed the same key in
\* registered_routes, and the service that was handed a key owns the entry
\* under that key as long as it has an instance.
C32_ConcurrentRegisterOneOwner ==
    /\ \A x, y \in registered :
          (/\ x.ServiceName \in Buckets
           /\ y.ServiceName \in Buckets
           /\ Key(x.Route, x.BasePath) = Key(y.Route, y.BasePath)) =>
              x.ServiceName = y.ServiceName
    /\ \A x \in registered :
          x.ServiceName \in Buckets =>
              /\ Key(x.Route, x.BasePath) \in DOMAIN routes
              /\ routes[Key(x.Route, x.BasePath)].ServiceName = x.ServiceName

(***************************************************************************)
(* Properties of serial registration under strict pattern matching.        *)
(***************************************************************************)
\* the services that own an entry MatchRoute may return for the request
MatchedOwners(method, path) ==
    { routes[result.key].ServiceName :
        result \in { r \in MatchRoute(routes, method, path) : r.found } }

\* C33: with StrictPatternMatching, in every state reached by serial
\* successful Register calls, no request is matched by entries of two
\* different services: the service MatchRoute routes a request to does not
\* depend on the order in which the routes are ranged over.
C33_NoRequestMatchesTwoServices ==
    config.StrictPatternMatching =>
        \A method \in SerialMethods, path \in SerialPaths :
            Cardinality(MatchedOwners(method, path)) <= 1

(***************************************************************************)
(* Properties of the two limiters.                                         *)
(***************************************************************************)
\* the timestamps of the calls of the key admitted before the last call
AdmittedBefore(last) ==
    LET ofKey(call) == call.key = last.key
        allowed == SelectSeq(limiter.admitted, ofKey)
        before == IF last.result.Allowed THEN SubSeq(allowed, 1, Len(allowed) - 1) ELSE allowed
    IN  [i \in 1..Len(before) |-> before[i].at]

\* C34: the Redis limiter answers a serial sequence of Allow calls as the
\* in-memory limiter answers it, with the same allowed and remaining; a
\* denied call takes out its own insertion and leaves under the key exactly
\* the timestamps of the calls allowed before it within the window, so that
\* it neither evicts a recorded request nor delays re-admission.
C34_RedisAnswersAsInMemory ==
    (limiter.redis /\ limiter.last.key # "" /\ ~ limiter.last.failed) =>
        LET inMemory == InMemoryAllow(AdmittedBefore(limiter.last),
                                      limiter.last.result.Limit, limiter.last.at)
        IN  /\ limiter.last.result.Allowed = inMemory.result.Allowed
            /\ limiter.last.result.Remaining = inMemory.result.Remaining
            /\ Lookup(limiter.requests, limiter.last.key) = inMemory.timestamps

\* how many of the timestamps lie in the set of times
CountIn(timestamps, times) ==
    Cardinality({ i \in 1..Len(timestamps) : timestamps[i] \in times })

\* C35: a request at time now is allowed if and only if strictly fewer than
\* limit requests are recorded in the closed interval from now - window to
\* now, so that a request recorded exactly at now - window still counts;
\* stated of the in-memory limiter, which records the requests it allowed.
C35_ClosedWindowDecides ==
    (~ limiter.redis /\ limiter.last.key # "" /\ ~ limiter.last.failed) =>
        (limiter.last.result.Allowed <=>
            CountIn(AdmittedBefore(limiter.last),
                    (limiter.last.at - Window)..limiter.last.at) < limiter.last.result.Limit)

(***************************************************************************)
(* Properties of the patterns of the matcher.                              *)
(***************************************************************************)
\* the pattern with every segment {name} written as :name
ColonForm(pattern) ==
    LET segments == Split(Trim(pattern, "/"), "/")
        colon(seg) == IF Len(seg) > 2 /\ HasPrefix(seg, "{") /\ Char(seg, Len(seg)) = "}"
                      THEN ":" \o SubSeq(seg, 2, Len(seg) - 1)
                      ELSE seg
    IN  "/" \o Join([i \in 1..Len(segments) |-> colon(segments[i])], "/")

\* C36: the matcher treats a segment {name} of a pattern as it treats
\* :name: an installed pattern matches the paths, with the parameters, that
\* the same pattern with :name in place of {name} matches, so that
\* /users/{id} matches /users/42 with id = 42.
C36_BracesAsColon ==
    \A key \in DOMAIN routes, path \in SerialPaths :
        matchPathWithParams(SplitKey(key)[2], path) =
            matchPathWithParams(ColonForm(SplitKey(key)[2]), path)

\* the last segment of the pattern is *
EndsInStar(pattern) == Segments(pattern)[Len(Segments(pattern))] = "*"

\* a pattern that ends in * matches a path: the path has the segments in
\* front of the * and they match one by one
MatchesByTrailingStar(pattern, path) ==
    /\ EndsInStar(pattern)
    /\ Len(Segments(path)) >= Len(Segments(pattern)) - 1
    /\ \A i \in 1..(Len(Segments(pattern)) - 1) :
          SegmentMatches(Segments(pattern)[i], Segments(path)[i])

\* C37: * is a wildcard only as the last segment of a pattern.  A pattern
\* that ends in * matches a path if and only if the path has at least
\* len(pattern) - 1 segments and the segments in front of the * match, and
\* params[*] is the rest of the path joined with slashes; a pattern whose
\* last segment is not * matches only a path with the same number of
\* segments in which every segment that is not a parameter equals the
\* path's.
C37_StarOnlyTrailing ==
    \A key \in DOMAIN routes, path \in MatchedPaths :
        LET pattern == SplitKey(key)[2]
            matched == matchPathWithParams(pattern, path)
        IN  IF EndsInStar(pattern)
            THEN /\ matched.ok <=> MatchesByTrailingStar(pattern, path)
                 /\ matched.ok =>
                       Get(matched.params, "*") =
                           Join(SubSeq(Segments(path), Len(Segments(pattern)),
                                       Len(Segments(path))), "/")
            ELSE matched.ok <=> MatchesBySegments(pattern, path)

(***************************************************************************)
(* Properties of the pattern collisions.                                   *)
(***************************************************************************)
\* the normalised paths have the same number of segments and at every
\* position equal segments or a * on either side
Overlap(path1, path2) ==
    LET segments1 == Segments(normalizePath(path1))
        segments2 == Segments(normalizePath(path2))
    IN  /\ Len(segments1) = Len(segments2)
        /\ \A i \in 1..Len(segments1) :
              segments1[i] = segments2[i] \/ segments1[i] = "*" \/ segments2[i] = "*"

\* the installed entries of other services with the method of the route
\* whose full path overlaps the full path of the route
Overlapping(serviceName, basePath, route) ==
    { key \in DOMAIN routes :
        /\ routes[key].ServiceName # serviceName
        /\ routes[key].Route.Method = route.Method
        /\ Overlap(FullPath(routes[key].Route, routes[key].BasePath),
                   FullPath(route, basePath)) }

\* the collisions are those the claim gives for one incoming route
CollisionsOfRoute(collisions, serviceName, basePath, route) ==
    LET key == Key(route, basePath)
        overlapping == Overlapping(serviceName, basePath, route)
    IN  IF key \in DOMAIN routes /\ routes[key].ServiceName # serviceName
        THEN /\ Len(collisions) = 1
             /\ collisions[1].CollisionType = ExactCollision
             /\ collisions[1].RegisteredBy = routes[key].ServiceName
        ELSE IF ~ config.StrictPatternMatching THEN collisions = << >>
        ELSE /\ Len(collisions) = Cardinality(overlapping)
             /\ \A i \in 1..Len(collisions) :
                   /\ collisions[i].CollisionType = PatternCollision
                   /\ collisions[i].Method = route.Method
                   /\ collisions[i].Path = FullPath(route, basePath)
             /\ \A b \in ServiceNames :
                   Cardinality({ i \in 1..Len(collisions) : collisions[i].RegisteredBy = b })
                       = Cardinality({ k \in overlapping : routes[k].ServiceName = b })

\* C38: with StrictPatternMatching, ValidateRoutes emits for an incoming
\* route exactly one pattern collision per installed entry of another
\* service with the same method whose normalised path has the same number
\* of segments as the route's and at every position an equal segment or a *
\* on either side, and none for any other entry; a route with an exact
\* collision yields that exact collision alone; without
\* StrictPatternMatching there is no pattern collision.
C38_PatternCollisions ==
    \A s \in ServiceNames, r \in SerialRoutes :
        \A collisions \in ValidateRoutes(routes, config.StrictPatternMatching,
                                         s, "/api", << r >>) :
            CollisionsOfRoute(collisions, s, "/api", r)

\* with StrictPatternMatching, service a holds GET /api/users/:id and
\* service b could not register GET /users/{id}, GET /users/me or GET
\* /users/:id: two pattern collisions and an exact one
C38_Witness ==
    /\ config.StrictPatternMatching
    /\ "GET:/api/users/:id" \in DOMAIN routes
    /\ routes["GET:/api/users/:id"].ServiceName = "a"
    /\ \E collisions \in ValidateRoutes(routes, TRUE, "b", "/api",
                                        << Route("GET", "/users/{id}"),
                                           Route("GET", "/users/me"),
                                           Route("GET", "/users/:id"),
                                           Route("POST", "/users/:id"),
                                           Route("GET", "/files/*") >>) :
          /\ Len(collisions) = 3
          /\ collisions[1].CollisionType = PatternCollision
          /\ collisions[1].Path = "/api/users/{id}"
          /\ collisions[2].CollisionType = PatternCollision
          /\ collisions[3].CollisionType = ExactCollision

(***************************************************************************)
(* Properties of the balancer shared by the services.                      *)
(***************************************************************************)
\* the numbers of selections of two instances of the service differ by one
\* at most
EvenlySpread(serviceName) ==
    \A i, j \in HealthyIDs(serviceName) : Selections(i) - Selections(j) <= 1

\* for a service with n healthy instances that do not change, the requests
\* proxied to it are spread over its instances with selection counts that
\* differ by one at most, whatever requests to other services went through
\* the balancer in between
C39_Original == \A s \in ServiceNames : EvenlySpread(s)

\* the requests proxied so far all went to the service
OnlyTo(serviceName) ==
    \A i \in 1..Len(balancer.returned) :
        balancer.returned[i].instance \in HealthyIDs(serviceName)

\* C39: for a service with n healthy instances that do not change, the
\* requests proxied to it are spread over its instances with selection
\* counts that differ by one at most as long as no request proxied to
\* another service went through the balancer.  The one counter counts the
\* requests of all services: the k-th request passed to Select goes to the
\* instance at position (k - 1) mod n of its own service.
C39_SpreadWhileAlone ==
    /\ \A s \in ServiceNames : OnlyTo(s) => EvenlySpread(s)
    /\ \A k \in 1..Len(balancer.returned) :
          LET found == GetHealthyInstances(
                           instances[balancer.returned[k].instance].ServiceName)
          IN  balancer.returned[k].instance = found[((k - 1) % Len(found)) + 1].ID

\* five requests to service a alone on its three instances: two of them
\* were selected twice and one once
C39_Witness ==
    /\ Len(GetHealthyInstances("a")) = 3
    /\ Len(balancer.returned) = 5
    /\ OnlyTo("a")
    /\ Selections(1) = 2
    /\ Selections(2) = 2
    /\ Selections(3) = 1

(***************************************************************************)
(* Properties of the pipeline of a proxied request.                        *)
(***************************************************************************)
\* C40: in the pipeline the server builds, a proxied request that carries a
\* valid external token with subject u is rate-limited under the key
\* ratelimit:user:u with the limit RateLimitUserRPM, and only a request
\* without an authenticated user is rate-limited under ratelimit:ip:<ip>
\* with RateLimitIPRPM.
C40_AuthenticatedKeyedByUser ==
    (proxy.stage = "allowed" /\ limiter.last.gate) =>
        IF authConfigured /\ ~ Public(proxy.entry.Route)
        THEN /\ limiter.last.key = "ratelimit:user:" \o proxy.auth.token.sub
             /\ limiter.last.result.Limit = RateLimitUserRPM
        ELSE /\ limiter.last.key \in { "ratelimit:ip:" \o ip : ip \in ClientIPs }
             /\ limiter.last.result.Limit = RateLimitIPRPM

====
